-------------------------- MODULE PlannedBuildProofs --------------------------
(***************************************************************************)
(* What holds of make_windows, of a batched build, and of the build with   *)
(* make_windows in it, for every dimension, corpus, batch size and         *)
(* sequence of calls.                                                      *)
(*                                                                         *)
(* Of make_windows: it partitions the term space.  The invariant PlanInv   *)
(* relates the loop's cursor to what it has pushed: the terms not yet      *)
(* assigned are at least as many as the windows still to come, which is    *)
(* what keeps every window non-empty and the unsigned arithmetic above     *)
(* zero.  Of a build's spill: the scratch directory holds nothing but the  *)
(* spill whose removal path_ owes, nothing at all between calls where a    *)
(* mapped file can be unlinked, and a build that did not throw leaves      *)
(* lists that can be read.  Of what a build makes: the lists are those of  *)
(* a whole-corpus build, and no check fires; they need what a window has   *)
(* staged after each row, what is clustered, and what the section holds up *)
(* to `begin`.  Of the two together: what make_windows returns is a cut a  *)
(* build may be given, so that all of this holds of the composition.       *)
(***************************************************************************)
EXTENDS PlannedBuild, DataTheorems

(* make_windows. *)

(* The inputs as the caller clamps them: at most a window per term, and at  *)
(* least one window as soon as there is a term.                             *)
BatchesInv ==
  /\ batches <= dim
  /\ dim > 0 => batches >= 1

(* prefix is the running sum of LoadOf, so it never decreases.              *)
PrefixInv ==
  /\ Len(prefix) \in 1 .. dim + 1
  /\ prefix[1] = 0
  /\ stage = "tally" => remaining = prefix[Len(prefix)]
  /\ stage # "tally" => Len(prefix) = dim + 1
  /\ \A i \in 1 .. Len(prefix), j \in 1 .. Len(prefix) :
       i <= j => prefix[i] <= prefix[j]
  /\ \A i \in 1 .. Len(prefix) - 1 : prefix[i + 1] = prefix[i] + LoadOf(i - 1)

TallyInv == stage = "tally" => windows = <<>> /\ from = 0

(* Where the cursor is while windows are being cut.                         *)
CursorInv ==
  stage \in {"open", "fill"} =>
    /\ Contiguous
    /\ from <= dim
    /\ windows = <<>> => from = 0
    /\ windows # <<>> => windows[Len(windows)].end = from
    /\ dim > 0 => from < dim
    /\ dim > 0 => Len(windows) < batches
    /\ dim > 0 => dim - from >= WindowsLeft
    /\ dim = 0 => windows = <<>>
    /\ remaining = prefix[dim + 1] - prefix[from + 1]

FillInv ==
  stage = "fill" =>
    /\ dim > 0
    /\ WindowsLeft > 1
    /\ from <= end
    /\ end <= MaxEnd
    /\ load = prefix[end + 1] - prefix[from + 1]

PlanInv ==
  /\ PlanTypeOK
  /\ BatchesInv
  /\ PrefixInv
  /\ TallyInv
  /\ CursorInv
  /\ FillInv
  /\ Partition
-----------------------------------------------------------------------------
(* A term's load is a natural number.                                       *)
LEMMA LoadOfType ==
  ASSUME PlanTypeOK, NEW t \in 0 .. dim - 1
  PROVE  LoadOf(t) \in Nat
BY CostRatioAssumption DEF PlanTypeOK, LoadOf, Least

(* The load tallied before any term is a natural number.                    *)
LEMMA PrefixElement ==
  ASSUME PlanTypeOK, NEW i \in 1 .. Len(prefix)
  PROVE  prefix[i] \in Nat
BY DEF PlanTypeOK

(* The invariant holds when make_windows is entered.                        *)
LEMMA InitPlanInv == PlanInit => PlanInv
<1> SUFFICES ASSUME PlanInit PROVE PlanInv
  OBVIOUS
<1> USE DimsAssumption, CountsAssumption, LambdasAssumption, BatchesAssumption
<1>1. PICK b \in AskedSizes : batches = EffectiveBatches(b, dim)
  BY DEF PlanInit
<1>2. /\ dim \in Nat
      /\ batches \in Nat
      /\ BatchesInv
  BY <1>1 DEF PlanInit, EffectiveBatches, Least, Greatest, BatchesInv
<1>3. PlanTypeOK
  BY <1>2 DEF PlanInit, PlanTypeOK
<1>4. PrefixInv
  BY <1>2 DEF PlanInit, PrefixInv
<1>5. QED
  BY <1>2, <1>3, <1>4 DEF PlanInit, PlanInv, TallyInv, CursorInv, FillInv, Partition
-----------------------------------------------------------------------------
(* Tallying one more term keeps the running sums those of the loads.        *)
LEMMA TallyStep == PlanInv /\ Tally => PlanInv'
<1> SUFFICES ASSUME PlanInv, Tally PROVE PlanInv'
  OBVIOUS
<1> USE DEF PlanInv
<1>1. /\ Tallied \in 0 .. dim - 1
      /\ LoadOf(Tallied) \in Nat
  BY LoadOfType DEF Tally, Tallied, PrefixInv, PlanTypeOK
<1>2. PlanTypeOK'
  BY <1>1 DEF Tally, PlanTypeOK, inputs
<1>3. PrefixInv'
  <2>1. Len(prefix') = Len(prefix) + 1 /\ Len(prefix') \in 1 .. dim + 1
    BY <1>1 DEF Tally, PlanTypeOK, PrefixInv, inputs, Tallied
  <2>2. \A i \in 1 .. Len(prefix) : prefix'[i] = prefix[i]
    BY DEF Tally, PlanTypeOK
  <2>3. prefix'[Len(prefix')] = remaining' /\ remaining' = remaining + LoadOf(Tallied)
    BY <2>1 DEF Tally, PlanTypeOK
  <2>4. ASSUME NEW i \in 1 .. Len(prefix'), NEW j \in 1 .. Len(prefix'), i <= j
        PROVE  prefix'[i] <= prefix'[j]
    <3>1. CASE j <= Len(prefix)
      <4>1. i \in 1 .. Len(prefix) /\ j \in 1 .. Len(prefix)
        BY <2>1, <2>4, <3>1 DEF PlanTypeOK
      <4>2. prefix[i] <= prefix[j]
        BY <4>1, <2>4 DEF PrefixInv
      <4>3. QED
        BY <4>1, <4>2, <2>2
    <3>2. CASE j = Len(prefix') /\ i <= Len(prefix)
      <4>1. /\ i \in 1 .. Len(prefix) /\ Len(prefix) \in 1 .. Len(prefix)
            /\ i <= Len(prefix)
        BY <3>2, <2>1 DEF PlanTypeOK
      <4>2. prefix[i] <= prefix[Len(prefix)]
        BY <4>1 DEF PrefixInv
      <4>3. /\ prefix[i] \in Nat /\ prefix[Len(prefix)] \in Nat
            /\ prefix[Len(prefix)] = remaining
        BY <4>1, PrefixElement DEF PrefixInv, Tally
      <4>4. prefix'[i] = prefix[i] /\ prefix'[j] = remaining + LoadOf(Tallied)
        BY <4>1, <3>2, <2>2, <2>3
      <4>5. QED
        BY <4>2, <4>3, <4>4, <1>1
    <3>3. CASE i = Len(prefix') /\ j = Len(prefix')
      BY <3>3, <2>3, <1>2 DEF PlanTypeOK
    <3>4. QED
      BY <2>1, <2>4, <3>1, <3>2, <3>3 DEF PlanTypeOK
  <2>5. ASSUME NEW i \in 1 .. Len(prefix') - 1
        PROVE  prefix'[i + 1] = prefix'[i] + LoadOf(i - 1)'
    <3>1. LoadOf(i - 1)' = LoadOf(i - 1)
      BY DEF Tally, inputs, LoadOf
    <3>2. CASE i < Len(prefix)
      <4>1. /\ i \in 1 .. Len(prefix) - 1
            /\ i \in 1 .. Len(prefix)
            /\ i + 1 \in 1 .. Len(prefix)
        BY <3>2, <2>1 DEF PlanTypeOK
      <4>2. prefix[i + 1] = prefix[i] + LoadOf(i - 1)
        BY <4>1 DEF PrefixInv
      <4>3. QED
        BY <4>1, <4>2, <3>1, <2>2
    <3>3. CASE i = Len(prefix)
      <4>1. i \in 1 .. Len(prefix) /\ i + 1 = Len(prefix')
        BY <3>3, <2>1 DEF PrefixInv, PlanTypeOK
      <4>2. remaining = prefix[i] /\ Tallied = i - 1
        BY <3>3 DEF PrefixInv, Tally, Tallied
      <4>3. QED
        BY <4>1, <4>2, <3>1, <2>2, <2>3
    <3>4. QED
      BY <3>2, <3>3, <2>1 DEF PlanTypeOK
  <2>6. dim' = dim /\ stage' = "tally"
    BY DEF Tally, inputs
  <2>7. Len(prefix') \in 1 .. dim' + 1 /\ remaining' = prefix'[Len(prefix')]
    BY <2>1, <2>3, <2>6
  <2>8. prefix'[1] = 0
    BY <2>2 DEF PrefixInv, PlanTypeOK
  <2>9. QED
    BY <2>4, <2>5, <2>6, <2>7, <2>8, Zenon DEF PrefixInv
<1>4. QED
  BY <1>2, <1>3 DEF Tally, inputs, BatchesInv, TallyInv, CursorInv, FillInv,
                    Partition

(* After the tally, all the load remains and no window is pushed.           *)
LEMMA TallyDoneStep == PlanInv /\ TallyDone => PlanInv'
<1> SUFFICES ASSUME PlanInv, TallyDone PROVE PlanInv'
  OBVIOUS
<1> USE DEF PlanInv, TallyDone, inputs
<1>1. PlanTypeOK' /\ BatchesInv' /\ TallyInv' /\ FillInv' /\ Partition'
  BY DEF PlanTypeOK, BatchesInv, TallyInv, FillInv, Partition
<1>2. PrefixInv'
  BY DEF PrefixInv, PlanTypeOK, Tallied, LoadOf
<1>3. CursorInv'
  BY DEF CursorInv, PrefixInv, TallyInv, BatchesInv, PlanTypeOK, Tallied,
         Contiguous, Run, WindowsLeft
<1>4. QED
  BY <1>1, <1>2, <1>3

(* Opening a window leaves it empty, with a term to take.                   *)
LEMMA OpenWindowStep == PlanInv /\ AimWindow => PlanInv'
<1> SUFFICES ASSUME PlanInv, AimWindow PROVE PlanInv'
  OBVIOUS
<1> USE DEF PlanInv, AimWindow, inputs
<1>1. target' \in Nat
  <2>1. WindowsLeft \in Nat /\ WindowsLeft > 1
    BY DEF PlanTypeOK, WindowsLeft
  <2>2. QED
    BY <2>1 DEF PlanTypeOK, CeilDiv
<1>2. PlanTypeOK' /\ BatchesInv' /\ TallyInv' /\ Partition'
  BY <1>1 DEF PlanTypeOK, BatchesInv, TallyInv, Partition
<1>3. PrefixInv'
  BY DEF PrefixInv, LoadOf
<1>4. CursorInv'
  BY DEF CursorInv, Contiguous, WindowsLeft
<1>5. FillInv'
  <2>1. dim > 0 /\ from <= dim - (WindowsLeft - 1)
    BY DEF CursorInv, PlanTypeOK, WindowsLeft
  <2>2. prefix[from + 1] \in Nat
    <3>1. from + 1 \in 1 .. Len(prefix)
      BY DEF PrefixInv, PlanTypeOK
    <3>2. QED
      BY <3>1 DEF PlanTypeOK
  <2>3. WindowsLeft' = WindowsLeft /\ MaxEnd' = MaxEnd
    BY DEF WindowsLeft, MaxEnd
  <2>4. load' = prefix'[end' + 1] - prefix'[from' + 1]
    BY <2>2
  <2>5. QED
    BY <2>1, <2>3, <2>4 DEF FillInv, MaxEnd, PlanTypeOK
<1>6. QED
  BY <1>2, <1>3, <1>4, <1>5

(* A term taken adds its load and stops short of the reserved terms.        *)
LEMMA TakeTermStep == PlanInv /\ TakeTerm => PlanInv'
<1> SUFFICES ASSUME PlanInv, TakeTerm PROVE PlanInv'
  OBVIOUS
<1> USE DEF PlanInv, TakeTerm, inputs
<1>1. /\ end \in 0 .. dim - 1
      /\ LoadOf(end) \in Nat
  <2>1. /\ dim \in Nat /\ end \in Nat
        /\ batches \in Nat /\ Len(windows) \in Nat
    BY DEF PlanTypeOK
  <2>2. 1 < WindowsLeft
    BY DEF FillInv
  <2>3. end < MaxEnd
    BY DEF WantsMore
  <2>4. end \in 0 .. dim - 1
    BY ONLY <2>1, <2>2, <2>3 DEF MaxEnd, WindowsLeft
  <2> QED
    BY <2>4, LoadOfType
<1>2. PlanTypeOK' /\ BatchesInv' /\ TallyInv' /\ Partition'
  BY <1>1 DEF PlanTypeOK, BatchesInv, TallyInv, Partition
<1>3. PrefixInv'
  BY DEF PrefixInv, LoadOf
<1>4. CursorInv'
  BY DEF CursorInv, Contiguous, WindowsLeft
<1>5. FillInv'
  <2>1. prefix[end + 2] = prefix[end + 1] + LoadOf(end)
    <3>1. end + 1 \in 1 .. Len(prefix) - 1
      BY <1>1 DEF PrefixInv, PlanTypeOK
    <3>2. prefix[(end + 1) + 1] = prefix[end + 1] + LoadOf((end + 1) - 1)
      BY <3>1 DEF PrefixInv
    <3>3. QED
      BY <3>2, <1>1 DEF PlanTypeOK
  <2>2. load' = prefix[end' + 1] - prefix[from + 1]
    <3>1. /\ end + 1 \in 1 .. Len(prefix)
          /\ end + 2 \in 1 .. Len(prefix)
          /\ from + 1 \in 1 .. Len(prefix)
      BY <1>1 DEF PrefixInv, PlanTypeOK, FillInv
    <3>2. /\ prefix[end + 1] \in Nat
          /\ prefix[end + 2] \in Nat
          /\ prefix[from + 1] \in Nat
      BY <3>1, PrefixElement
    <3>3. load = prefix[end + 1] - prefix[from + 1] /\ end' + 1 = end + 2
      BY <1>1 DEF FillInv
    <3>4. load' = load + LoadOf(end)
      OBVIOUS
    <3>5. QED
      BY <2>1, <3>2, <3>3, <3>4, <1>1
  <2>3. QED
    BY <2>2, <1>1 DEF FillInv, WantsMore, MaxEnd, WindowsLeft, PlanTypeOK
<1>6. QED
  BY <1>2, <1>3, <1>4, <1>5

(* Pushing a non-empty window where the last one ended keeps the run.       *)
LEMMA PushKeepsRun ==
  ASSUME NEW ws \in Seq(Span), NEW b \in Nat, NEW e \in Nat, b < e, Run(ws),
         ws = <<>> => b = 0,
         ws # <<>> => ws[Len(ws)].end = b
  PROVE  Run(Append(ws, [begin |-> b, end |-> e]))
<1> DEFINE win == [begin |-> b, end |-> e]
           ws2 == Append(ws, win)
<1>1. /\ Len(ws) \in Nat
      /\ Len(ws2) = Len(ws) + 1
      /\ ws2[Len(ws) + 1] = win
      /\ \A w \in 1 .. Len(ws) : ws2[w] = ws[w]
      /\ win.begin = b /\ win.end = e
  OBVIOUS
<1> HIDE DEF ws2, win
<1>2. ASSUME NEW w \in 1 .. Len(ws2) PROVE ws2[w].begin < ws2[w].end
  <2>1. CASE w = Len(ws) + 1
    BY <1>1, <2>1
  <2>2. CASE w # Len(ws) + 1
    <3>1. w \in 1 .. Len(ws)
      BY <1>1, <2>2
    <3>2. QED
      BY <1>1, <3>1 DEF Run
  <2>3. QED
    BY <2>1, <2>2
<1>3. ASSUME NEW w \in 1 .. Len(ws2) - 1 PROVE ws2[w].end = ws2[w + 1].begin
  <2>1. CASE w = Len(ws)
    <3>1. ws # <<>> /\ w \in 1 .. Len(ws)
      BY <1>1, <2>1
    <3>2. QED
      BY <1>1, <2>1, <3>1
  <2>2. CASE w # Len(ws)
    <3>1. w \in 1 .. Len(ws) - 1 /\ w \in 1 .. Len(ws) /\ w + 1 \in 1 .. Len(ws)
      BY <1>1, <2>2
    <3>2. QED
      BY <1>1, <3>1 DEF Run
  <2>3. QED
    BY <2>1, <2>2
<1>4. ws2[1].begin = 0
  <2>1. CASE ws = <<>>
    <3>1. Len(ws) = 0
      BY <2>1
    <3>2. QED
      BY <1>1, <2>1, <3>1
  <2>2. CASE ws # <<>>
    <3>1. 1 \in 1 .. Len(ws)
      BY <2>2
    <3>2. QED
      BY <1>1, <2>2, <3>1 DEF Run
  <2>3. QED
    BY <2>1, <2>2
<1>5. Run(ws2)
  BY <1>2, <1>3, <1>4, Zenon DEF Run
<1>6. QED
  BY <1>5 DEF ws2, win

(* Closing a window keeps the run, the reserve and the load left.           *)
LEMMA CloseWindowStep == PlanInv /\ CloseWindow => PlanInv'
<1> SUFFICES ASSUME PlanInv, CloseWindow PROVE PlanInv'
  OBVIOUS
<1> USE DEF PlanInv, CloseWindow, inputs
<1>1. /\ from < end
      /\ end < dim
      /\ end <= MaxEnd
  <2>1. /\ WindowsLeft \in Int
        /\ WindowsLeft > 1
        /\ dim - from >= WindowsLeft
    BY DEF FillInv, CursorInv, WindowsLeft, PlanTypeOK
  <2>2. from < MaxEnd /\ MaxEnd < dim
    BY <2>1 DEF MaxEnd, PlanTypeOK
  <2>3. from <= end /\ end <= MaxEnd /\ (end >= MaxEnd \/ end # from)
    BY <2>2 DEF FillInv, WantsMore, PlanTypeOK
  <2>4. QED
    BY <2>1, <2>2, <2>3 DEF MaxEnd, PlanTypeOK
<1>2. /\ from + 1 \in 1 .. Len(prefix)
      /\ end + 1 \in 1 .. Len(prefix)
      /\ dim + 1 \in 1 .. Len(prefix)
  <2>1. Len(prefix) = dim + 1
    BY DEF PrefixInv
  <2>2. dim \in Nat /\ from \in Nat /\ end \in Nat
    BY DEF PlanTypeOK
  <2> HIDE DEF PlanInv, CloseWindow
  <2> QED
    BY <1>1, <2>1, <2>2
<1>3. /\ prefix[from + 1] \in Nat
      /\ prefix[end + 1] \in Nat
      /\ prefix[dim + 1] \in Nat
      /\ prefix[end + 1] <= prefix[dim + 1]
  <2>1. prefix[end + 1] <= prefix[dim + 1]
    BY <1>1, <1>2 DEF PrefixInv, PlanTypeOK
  <2>2. QED
    BY <2>1, <1>2, PrefixElement
<1>4. /\ remaining' = prefix[dim + 1] - prefix[end + 1]
      /\ remaining' \in Nat
  BY <1>3 DEF CursorInv, FillInv
<1>5. /\ Len(windows') = Len(windows) + 1
      /\ windows' \in Seq(Span)
      /\ windows'[Len(windows')] = [begin |-> from, end |-> end]
      /\ \A w \in 1 .. Len(windows) : windows'[w] = windows[w]
  BY DEF PlanTypeOK, Span
<1>6. PlanTypeOK' /\ BatchesInv' /\ TallyInv' /\ FillInv' /\ Partition'
  BY <1>4, <1>5 DEF PlanTypeOK, BatchesInv, TallyInv, FillInv, Partition
<1>7. PrefixInv'
  BY DEF PrefixInv, LoadOf
<1>8. Contiguous'
  <2>1. /\ windows \in Seq(Span) /\ from \in Nat /\ end \in Nat
        /\ Run(windows)
        /\ windows = <<>> => from = 0
        /\ windows # <<>> => windows[Len(windows)].end = from
    BY DEF CursorInv, Contiguous, PlanTypeOK
  <2>2. Run(Append(windows, [begin |-> from, end |-> end]))
    BY <1>1, <2>1, PushKeepsRun
  <2>3. QED
    BY <2>2 DEF Contiguous
<1>9. CursorInv'
  <2>1. /\ Len(windows') < batches
        /\ dim - end >= batches - Len(windows')
    <3>1. Len(windows) \in Nat /\ batches - Len(windows) > 1
      BY DEF FillInv, WindowsLeft, PlanTypeOK
    <3>2. end <= dim - (batches - Len(windows) - 1)
      BY <1>1 DEF MaxEnd, WindowsLeft
    <3>3. QED
      BY <3>1, <3>2, <1>5 DEF PlanTypeOK
  <2>2. windows' # <<>> /\ windows'[Len(windows')].end = from'
    BY <1>5 DEF PlanTypeOK
  <2>3. QED
    <3>1. /\ dim' = dim
          /\ from' = end
          /\ WindowsLeft' = batches - Len(windows')
          /\ prefix' = prefix
          /\ end \in Nat
      BY DEF WindowsLeft, PlanTypeOK
    <3>2. dim > 0 /\ end < dim
      BY <1>1 DEF PlanTypeOK
    <3>3. dim' - from' >= WindowsLeft' /\ from' <= dim' /\ from' < dim'
      BY <2>1, <3>1, <3>2 DEF PlanTypeOK
    <3>4. Len(windows)' < batches' /\ ~(dim' = 0)
      BY <2>1, <3>1, <3>2 DEF PlanTypeOK
    <3>5. remaining' = prefix'[dim' + 1] - prefix'[from' + 1]
      BY <1>4, <3>1
    <3>6. QED
      BY <1>8, <2>2, <3>3, <3>4, <3>5, Zenon DEF CursorInv
<1>10. QED
  BY <1>6, <1>7, <1>9

(* The last window takes the run to dim: the partition is complete.         *)
LEMMA TakeRestStep == PlanInv /\ TakeRest => PlanInv'
<1> SUFFICES ASSUME PlanInv, TakeRest PROVE PlanInv'
  OBVIOUS
<1> USE DEF PlanInv, TakeRest, inputs
<1>1. dim > 0 /\ Len(windows) + 1 = batches
  BY DEF CursorInv, WindowsLeft, PlanTypeOK
<1>2. /\ Len(windows') = Len(windows) + 1
      /\ windows' \in Seq(Span)
      /\ windows'[Len(windows')] = [begin |-> from, end |-> dim]
      /\ \A w \in 1 .. Len(windows) : windows'[w] = windows[w]
  BY DEF PlanTypeOK, Span
<1>3. PlanTypeOK' /\ BatchesInv' /\ TallyInv' /\ FillInv' /\ CursorInv'
  BY <1>2 DEF PlanTypeOK, BatchesInv, TallyInv, FillInv, CursorInv
<1>4. PrefixInv'
  BY DEF PrefixInv, LoadOf
<1>5. Contiguous'
  <2>1. /\ windows \in Seq(Span) /\ from \in Nat /\ dim \in Nat
        /\ from < dim
        /\ Run(windows)
        /\ windows = <<>> => from = 0
        /\ windows # <<>> => windows[Len(windows)].end = from
    BY DEF CursorInv, Contiguous, PlanTypeOK
  <2>2. Run(Append(windows, [begin |-> from, end |-> dim]))
    BY <2>1, PushKeepsRun
  <2>3. QED
    BY <2>2 DEF Contiguous
<1>6. Partition'
  <2>1. Len(windows') = batches' /\ batches' # 0
    BY <1>1, <1>2 DEF PlanTypeOK
  <2>2. windows' # <<>>
    BY <2>1
  <2>3. windows'[Len(windows')].end = dim'
    BY <1>2
  <2> QED
    BY <1>5, <2>1, <2>2, <2>3 DEF Partition
<1>7. QED
  BY <1>3, <1>4, <1>6

(* Only an empty term space exits at the loop head, with no window.         *)
LEMMA LoopExitStep == PlanInv /\ LoopExit => PlanInv'
<1> SUFFICES ASSUME PlanInv, LoopExit PROVE PlanInv'
  OBVIOUS
<1> USE DEF PlanInv, LoopExit, inputs
<1>1. dim = 0 /\ windows = <<>> /\ batches = 0
  BY DEF CursorInv, PlanTypeOK, BatchesInv
<1>2. PlanTypeOK' /\ BatchesInv' /\ TallyInv' /\ FillInv' /\ CursorInv'
  BY DEF PlanTypeOK, BatchesInv, TallyInv, FillInv, CursorInv
<1>3. PrefixInv'
  BY DEF PrefixInv, LoadOf
<1>4. Partition'
  BY <1>1 DEF Partition, CursorInv, Contiguous
<1>5. QED
  BY <1>2, <1>3, <1>4

(* The invariant depends on the variables alone.                            *)
LEMMA StutterStep == PlanInv /\ UNCHANGED planVars => PlanInv'
BY DEF PlanInv, planVars, PlanTypeOK, BatchesInv, PrefixInv, TallyInv, CursorInv, FillInv,
       Partition, Contiguous, LoadOf, WindowsLeft, MaxEnd
-----------------------------------------------------------------------------
(* Every step of make_windows keeps the invariant.                          *)
LEMMA NextPlanInv == PlanInv /\ [PlanNext]_planVars => PlanInv'
BY TallyStep, TallyDoneStep, TakeRestStep, OpenWindowStep, TakeTermStep,
   CloseWindowStep, LoopExitStep, StutterStep DEF PlanNext, Terminated

(* The inductive invariant holds of every run of make_windows.              *)
THEOREM PlanInvHolds == PlanSpec => []PlanInv
BY InitPlanInv, NextPlanInv, PTL DEF PlanSpec

(* Every variable of make_windows keeps its type; for the size_t ones this  *)
(* says the modelled subtraction never goes below zero.                     *)
THEOREM TypeCorrect == PlanSpec => []PlanTypeOK
<1>1. PlanInv => PlanTypeOK
  BY DEF PlanInv
<1>2. QED
  BY <1>1, PlanInvHolds, PTL

(* For every corpus, lambda and batch size the windows make_windows returns *)
(* partition 0 .. dim-1 into exactly `batches` non-empty contiguous runs,   *)
(* which the spill's offset-free layout (seismic_batched_build.cpp:72-77)   *)
(* depends on.                                                              *)
THEOREM WindowsPartitionTheTerms == PlanSpec => []Partition
<1>1. PlanInv => Partition
  BY DEF PlanInv
<1>2. QED
  BY <1>1, PlanInvHolds, PTL

(* There is a window left at the loop head, a term for it, and never more    *)
(* load to subtract than remains.                                           *)
LEMMA PlanIsUnsigned == PlanInv => NoUnderflow
<1> SUFFICES ASSUME PlanInv PROVE NoUnderflow
  OBVIOUS
<1> USE DEF PlanInv
<1>1. stage \in {"open", "fill"} /\ from < dim => WindowsLeft >= 1
  BY DEF CursorInv, WindowsLeft, PlanTypeOK
<1>2. stage = "fill" => WindowsLeft > 1 /\ from < MaxEnd /\ end <= MaxEnd
  BY DEF CursorInv, FillInv, WindowsLeft, MaxEnd, PlanTypeOK
<1>3. ASSUME stage = "fill" PROVE load <= remaining
  <2>1. /\ from + 1 \in 1 .. Len(prefix)
        /\ end + 1 \in 1 .. Len(prefix)
        /\ dim + 1 \in 1 .. Len(prefix)
    <3>1. end < dim
      BY <1>2, <1>3 DEF MaxEnd, WindowsLeft, PlanTypeOK
    <3>2. Len(prefix) = dim + 1 /\ from <= dim
      BY <1>3 DEF PrefixInv, CursorInv
    <3>3. QED
      BY <3>1, <3>2 DEF PlanTypeOK
  <2>2. /\ prefix[from + 1] \in Nat
        /\ prefix[end + 1] \in Nat
        /\ prefix[dim + 1] \in Nat
    BY <2>1, PrefixElement
  <2>3. prefix[end + 1] <= prefix[dim + 1]
    BY <2>1 DEF PrefixInv, PlanTypeOK
  <2>4. QED
    BY <1>3, <2>2, <2>3 DEF FillInv, CursorInv
<1>4. QED
  BY <1>1, <1>2, <1>3 DEF NoUnderflow

(* None of make_windows' size_t subtractions wraps, whatever the corpus:    *)
(* there is always a window left at the loop head, at least one term for    *)
(* it, and never more load to subtract than remains.                        *)
THEOREM ArithmeticStaysUnsigned == PlanSpec => []NoUnderflow
BY PlanIsUnsigned, PlanInvHolds, PTL
-----------------------------------------------------------------------------
(* No window but the last has what would have been enough without its last  *)
(* term.  Either the load left is at most an even share for each of the     *)
(* windows left, or each of these has one term.                             *)

Single == dim - from = WindowsLeft

Spread(w, last) ==
  LET b == windows[w].begin
      e == windows[w].end
  IN  e - b > 1 =>
        IF last THEN LoadOfTerms(b, e) <= EvenShare
                ELSE LoadOfTerms(b, e - 1) < EvenShare

EvenInv ==
  /\ stage \in {"open", "fill"} /\ dim > 0 =>
       remaining <= WindowsLeft * EvenShare \/ Single
  /\ stage = "fill" =>
       /\ target = CeilDiv(remaining, WindowsLeft)
       /\ end - from > 1 => LoadOfTerms(from, end - 1) < target
  /\ \A w \in 1 .. Len(windows) : Spread(w, stage = "done" /\ w = Len(windows))

(* A share rounded up is enough for all, and no more than needed.           *)
LEMMA CeilDivCovers ==
  ASSUME NEW a \in Nat, NEW n \in Nat \ {0}
  PROVE  /\ CeilDiv(a, n) \in Nat
         /\ a <= n * CeilDiv(a, n)
         /\ \A e \in Nat : a <= n * e => CeilDiv(a, n) <= e
<1> DEFINE q == (a + n - 1) \div n
<1>1. q \in Nat /\ n * q <= a + n - 1 /\ a + n - 1 < n * q + n
  <2>1. a + n - 1 \in Nat
    OBVIOUS
  <2>2. a + n - 1 = n * q + ((a + n - 1) % n)
    BY <2>1
  <2> QED
    BY <2>1, <2>2
<1> HIDE DEF q
<1>2. n * q \in Nat
  BY <1>1
<1>3. a <= n * q
  BY <1>1, <1>2
<1>4. ASSUME NEW e \in Nat, a <= n * e
      PROVE  q <= e
  <2>1. SUFFICES ASSUME e + 1 <= q PROVE FALSE
    BY <1>1
  <2>2. n * (e + 1) <= n * q
    BY <1>1, <2>1
  <2>3. n * (e + 1) = n * e + n /\ n * e \in Nat
    OBVIOUS
  <2> QED
    BY <1>1, <1>2, <1>4, <2>2, <2>3
<1> QED
  BY <1>1, <1>3, <1>4 DEF CeilDiv, q

(* Nothing is spread before a window is cut.                                *)
LEMMA InitEvenInv == PlanInit => EvenInv
BY DEF PlanInit, EvenInv

(* The even share is a number of postings once they are tallied.            *)
LEMMA EvenShareType ==
  ASSUME PlanInv, stage # "tally", dim > 0
  PROVE  EvenShare \in Nat /\ prefix[dim + 1] \in Nat /\ prefix[dim + 1] <= batches * EvenShare
<1>1. batches \in Nat \ {0} /\ dim \in Nat
  BY DEF PlanInv, PlanTypeOK, BatchesInv
<1>2. prefix[dim + 1] \in Nat
  <2>1. dim + 1 \in 1 .. Len(prefix)
    BY <1>1 DEF PlanInv, PrefixInv
  <2> QED
    BY <2>1, PrefixElement DEF PlanInv
<1> QED
  BY <1>1, <1>2, CeilDivCovers DEF EvenShare

(* A step that pushes no window leaves those there are as they were.        *)
LEMMA SpreadStays ==
  ASSUME NEW w, NEW last, windows'[w] = windows[w], UNCHANGED <<prefix, dim, batches>>,
         Spread(w, last)
  PROVE  Spread(w, last)'
BY DEF Spread, LoadOfTerms, EvenShare

(* At the end of the tally, the load left is that of all the windows.       *)
LEMMA TallyDoneEven == PlanInv /\ EvenInv /\ TallyDone => EvenInv'
<1> SUFFICES ASSUME PlanInv, TallyDone PROVE EvenInv'
  OBVIOUS
<1>1. windows = <<>> /\ windows' = <<>> /\ stage' = "open"
  BY DEF PlanInv, TallyInv, TallyDone
<1>2. ASSUME dim' > 0
      PROVE  remaining' <= WindowsLeft' * EvenShare'
  <2>1. PlanInv' /\ stage' # "tally"
    BY <1>1, TallyDoneStep
  <2>2. prefix'[dim' + 1] <= batches' * EvenShare'
    <3>1. /\ batches \in Nat \ {0} /\ dim \in Nat /\ dim' = dim /\ batches' = batches /\ prefix' = prefix
      BY <1>2 DEF PlanInv, PlanTypeOK, BatchesInv, TallyDone, inputs
    <3>2. dim + 1 \in 1 .. Len(prefix) /\ Len(prefix) = dim + 1
      BY <3>1 DEF PlanInv, PrefixInv, TallyDone, Tallied, PlanTypeOK
    <3>3. prefix[dim + 1] \in Nat
      BY <3>2, PrefixElement DEF PlanInv
    <3>4. prefix[dim + 1] <= batches * EvenShare
      BY <3>1, <3>3, CeilDivCovers DEF EvenShare
    <3> QED
      BY <3>1, <3>4 DEF EvenShare
  <2>3. remaining' = prefix'[dim' + 1]
    BY DEF PlanInv, PrefixInv, TallyDone, Tallied, PlanTypeOK, inputs
  <2>4. WindowsLeft' = batches'
    <3>1. batches' = batches /\ batches \in Nat /\ Len(windows) = 0
      BY <1>1 DEF PlanInv, PlanTypeOK, TallyDone, inputs
    <3>2. WindowsLeft' = batches - Len(windows)
      BY <1>1, <3>1 DEF WindowsLeft
    <3> QED
      BY <3>1, <3>2
  <2> QED
    BY <2>2, <2>3, <2>4
<1> QED
  BY <1>1, <1>2 DEF EvenInv

(* A window is opened with nothing in it, to the target of what is left.    *)
LEMMA AimWindowEven == PlanInv /\ EvenInv /\ AimWindow => EvenInv'
<1> SUFFICES ASSUME PlanInv, EvenInv, AimWindow PROVE EvenInv'
  OBVIOUS
<1>1. /\ UNCHANGED <<dim, batches, prefix, windows, from, remaining>>
      /\ stage = "open" /\ stage' = "fill" /\ target' = CeilDiv(remaining, WindowsLeft)
      /\ end' = from /\ from \in Nat
  BY DEF AimWindow, inputs, PlanInv, PlanTypeOK
<1>2. /\ WindowsLeft' = WindowsLeft /\ EvenShare' = EvenShare /\ Single' = Single
  BY <1>1 DEF WindowsLeft, EvenShare, Single
<1>3. \A w \in 1 .. Len(windows') : Spread(w, stage = "done" /\ w = Len(windows))'
  BY <1>1 DEF EvenInv, Spread, LoadOfTerms, EvenShare
<1>4. dim' > 0 => remaining' <= WindowsLeft' * EvenShare' \/ Single'
  BY <1>1, <1>2 DEF EvenInv
<1>5. target' = CeilDiv(remaining', WindowsLeft') /\ ~(end' - from' > 1)
  BY <1>1, <1>2
<1> QED
  BY <1>1, <1>3, <1>4, <1>5 DEF EvenInv

(* A term that is not the first is taken below the target.                  *)
LEMMA TakeTermEven == PlanInv /\ EvenInv /\ TakeTerm => EvenInv'
<1> SUFFICES ASSUME PlanInv, EvenInv, TakeTerm PROVE EvenInv'
  OBVIOUS
<1>1. /\ UNCHANGED <<dim, batches, prefix, windows, from, remaining, target>>
      /\ stage = "fill" /\ stage' = "fill" /\ end' = end + 1
      /\ end \in Nat /\ from \in Nat
  BY DEF TakeTerm, inputs, PlanInv, PlanTypeOK
<1>2. /\ WindowsLeft' = WindowsLeft /\ EvenShare' = EvenShare /\ Single' = Single
  BY <1>1 DEF WindowsLeft, EvenShare, Single
<1>3. \A w \in 1 .. Len(windows') : Spread(w, stage = "done" /\ w = Len(windows))'
  BY <1>1 DEF EvenInv, Spread, LoadOfTerms, EvenShare
<1>4. dim' > 0 => remaining' <= WindowsLeft' * EvenShare' \/ Single'
  BY <1>1, <1>2 DEF EvenInv
<1>5. target' = CeilDiv(remaining', WindowsLeft')
  BY <1>1, <1>2 DEF EvenInv
<1>6. ASSUME end' - from' > 1
      PROVE  LoadOfTerms(from, end - 1)' < target'
  <2>1. end # from /\ end' - 1 = end
    BY <1>1, <1>6
  <2>2. load < target /\ load = prefix[end + 1] - prefix[from + 1]
    BY <1>1, <2>1 DEF TakeTerm, WantsMore, PlanInv, FillInv
  <2> QED
    BY <1>1, <2>1, <2>2 DEF LoadOfTerms
<1> QED
  BY <1>1, <1>3, <1>4, <1>5, <1>6 DEF EvenInv

(* A window takes its target, or leaves one term to each of the others.     *)
LEMMA CloseWindowEven == PlanInv /\ EvenInv /\ CloseWindow => EvenInv'
<1> SUFFICES ASSUME PlanInv, EvenInv, CloseWindow PROVE EvenInv'
  OBVIOUS
<1> DEFINE W == WindowsLeft
           E == EvenShare
<1>1. /\ UNCHANGED <<dim, batches, prefix>>
      /\ stage = "fill" /\ stage' = "open" /\ from' = end
      /\ windows' = Append(windows, [begin |-> from, end |-> end])
      /\ remaining' = remaining - load
  BY DEF CloseWindow, inputs
<1>2. /\ dim \in Nat /\ from \in Nat /\ end \in Nat /\ remaining \in Nat /\ load \in Nat
      /\ batches \in Nat /\ windows \in Seq(Span) /\ target \in Nat
  BY DEF PlanInv, PlanTypeOK
<1>3. /\ dim > 0 /\ W \in Nat /\ W > 1 /\ from <= end /\ end <= dim - (W - 1)
      /\ load = LoadOfTerms(from, end)
  BY <1>1, <1>2 DEF PlanInv, FillInv, MaxEnd, WindowsLeft, LoadOfTerms
<1>4. E \in Nat
  BY <1>1, <1>3, EvenShareType
<1>5. W' = W - 1 /\ E' = E
  <2>1. Len(windows') = Len(windows) + 1 /\ Len(windows) \in Nat
    BY <1>1, <1>2
  <2>2. W' = batches - Len(windows') /\ W = batches - Len(windows)
    BY <1>1 DEF WindowsLeft
  <2>3. W' = W - 1
    BY <1>2, <2>1, <2>2
  <2> QED
    BY <1>1, <2>3 DEF EvenShare
<1>6. ASSUME Single
      PROVE  Single' /\ ~(end - from > 1)
  <2>1. dim - from = W
    BY <1>6 DEF Single
  <2>2. end = from \/ end = from + 1
    BY <1>2, <1>3, <2>1
  <2>3. end # from
    <3>1. from < dim - (W - 1)
      BY <1>2, <1>3, <2>1
    <3> QED
      BY <1>2, <3>1 DEF CloseWindow, WantsMore, MaxEnd
  <2>4. dim' - from' = W'
    BY <1>1, <1>2, <1>3, <1>5, <2>1, <2>2, <2>3
  <2> QED
    BY <2>2, <2>4, <1>2 DEF Single
<1>7. ASSUME ~Single
      PROVE  /\ end - from > 1 => LoadOfTerms(from, end - 1) < E
             /\ remaining' <= W' * E' \/ Single'
  <2>1. target = CeilDiv(remaining, W) /\ remaining <= W * E
    BY <1>1, <1>3, <1>7 DEF EvenInv
  <2>2. target <= E /\ remaining <= W * target
    BY <1>2, <1>3, <1>4, <2>1, CeilDivCovers
  <2>3. ASSUME end - from > 1 PROVE LoadOfTerms(from, end - 1) < E
    <3>1. LoadOfTerms(from, end - 1) < target
      BY <1>1, <2>3 DEF EvenInv
    <3>2. LoadOfTerms(from, end - 1) \in Int
      <4>1. from + 1 \in 1 .. Len(prefix) /\ end - 1 + 1 \in 1 .. Len(prefix)
        BY <1>1, <1>2, <1>3, <2>3 DEF PlanInv, PrefixInv
      <4> QED
        BY <4>1, PrefixElement DEF LoadOfTerms, PlanInv
    <3> QED
      BY <1>2, <1>4, <2>2, <3>1, <3>2
  <2>4. CASE end >= dim - (W - 1)
    <3>1. dim' - from' = W'
      BY <1>1, <1>2, <1>3, <1>5, <2>4
    <3> QED
      BY <2>3, <3>1 DEF Single
  <2>5. CASE end < dim - (W - 1)
    <3>1. load >= target
      BY <1>2, <1>3, <2>5 DEF CloseWindow, WantsMore, MaxEnd
    <3>2. (W - 1) * target = W * target - target /\ W * target \in Nat
      BY <1>2, <1>3
    <3>3. (W - 1) * target <= (W - 1) * E /\ (W - 1) * E \in Nat
      BY <1>2, <1>3, <1>4, <2>2
    <3>4. remaining - load <= (W - 1) * E
      BY <1>2, <2>2, <3>1, <3>2, <3>3
    <3> QED
      BY <1>1, <1>5, <2>3, <3>4
  <2> QED
    BY <1>2, <1>3, <2>4, <2>5
<1>8. ASSUME NEW w \in 1 .. Len(windows')
      PROVE  Spread(w, stage = "done" /\ w = Len(windows))'
  <2>1. CASE w = Len(windows) + 1
    <3>1. windows'[w] = [begin |-> from, end |-> end]
      BY <1>1, <1>2, <2>1
    <3>2. end - from > 1 => LoadOfTerms(from, end - 1) < E
      BY <1>6, <1>7
    <3>3. end - from > 1 => prefix'[end - 1 + 1] - prefix'[from + 1] < E'
      BY <1>1, <1>5, <3>2 DEF LoadOfTerms
    <3> QED
      BY <1>1, <3>1, <3>3 DEF Spread, LoadOfTerms
  <2>2. CASE w # Len(windows) + 1
    <3>1. w \in 1 .. Len(windows) /\ windows'[w] = windows[w]
      BY <1>1, <1>2, <2>2
    <3>2. Spread(w, FALSE)
      BY <1>1, <3>1 DEF EvenInv
    <3>3. Spread(w, FALSE)'
      BY <1>1, <3>1, <3>2, SpreadStays
    <3> QED
      BY <1>1, <3>3
  <2> QED
    BY <2>1, <2>2
<1>9. dim' > 0 => remaining' <= W' * E' \/ Single'
  BY <1>6, <1>7
<1> QED
  BY <1>1, <1>8, <1>9 DEF EvenInv

(* The last window takes what is left: an even share, or one term.          *)
LEMMA TakeRestEven == PlanInv /\ EvenInv /\ TakeRest => EvenInv'
<1> SUFFICES ASSUME PlanInv, EvenInv, TakeRest PROVE EvenInv'
  OBVIOUS
<1>1. /\ UNCHANGED <<dim, batches, prefix>>
      /\ stage = "open" /\ stage' = "done" /\ from < dim
      /\ windows' = Append(windows, [begin |-> from, end |-> dim])
  BY DEF TakeRest, inputs
<1>2. /\ dim \in Nat /\ from \in Nat /\ remaining \in Nat
      /\ batches \in Nat /\ windows \in Seq(Span)
  BY DEF PlanInv, PlanTypeOK
<1>3. dim > 0 /\ EvenShare \in Nat
  BY <1>1, <1>2, EvenShareType
<1>4. WindowsLeft = 1 /\ remaining = LoadOfTerms(from, dim)
  BY <1>1, <1>2, <1>3 DEF PlanInv, CursorInv, TakeRest, WindowsLeft, LoadOfTerms
<1>5. dim - from > 1 => LoadOfTerms(from, dim) <= EvenShare
  BY <1>1, <1>2, <1>3, <1>4 DEF EvenInv, Single
<1>6. ASSUME NEW w \in 1 .. Len(windows')
      PROVE  Spread(w, stage = "done" /\ w = Len(windows))'
  <2>1. CASE w = Len(windows) + 1
    <3>1. windows'[w] = [begin |-> from, end |-> dim] /\ w = Len(windows')
      BY <1>1, <1>2, <2>1
    <3>2. dim - from > 1 => prefix'[dim + 1] - prefix'[from + 1] <= EvenShare'
      BY <1>1, <1>5 DEF LoadOfTerms, EvenShare
    <3> QED
      BY <1>1, <3>1, <3>2 DEF Spread, LoadOfTerms
  <2>2. CASE w # Len(windows) + 1
    <3>1. w \in 1 .. Len(windows) /\ windows'[w] = windows[w] /\ w # Len(windows')
      BY <1>1, <1>2, <2>2
    <3>2. Spread(w, FALSE)
      BY <1>1, <3>1 DEF EvenInv
    <3>3. Spread(w, FALSE)'
      BY <1>1, <3>1, <3>2, SpreadStays
    <3> QED
      BY <3>1, <3>3
  <2> QED
    BY <2>1, <2>2
<1> QED
  BY <1>1, <1>6 DEF EvenInv

(* No other step has a window to spread.                                    *)
LEMMA NextEvenInv == PlanInv /\ EvenInv /\ [PlanNext]_planVars => EvenInv'
<1> SUFFICES ASSUME PlanInv, EvenInv, [PlanNext]_planVars PROVE EvenInv'
  OBVIOUS
<1>1. CASE Tally
  <2>1. windows' = <<>> /\ stage' = "tally"
    BY <1>1 DEF Tally, PlanInv, TallyInv
  <2> QED
    BY <2>1 DEF EvenInv
<1>2. CASE LoopExit
  <2>1. windows = <<>> /\ windows' = <<>> /\ stage' = "done"
    BY <1>2 DEF LoopExit, PlanInv, CursorInv, PlanTypeOK
  <2> QED
    BY <2>1 DEF EvenInv
<1>3. CASE UNCHANGED planVars
  BY <1>3 DEF EvenInv, planVars, Single, WindowsLeft, EvenShare, LoadOfTerms, Spread
<1> QED
  BY <1>1, <1>2, <1>3, TallyDoneEven, AimWindowEven, TakeTermEven, CloseWindowEven,
     TakeRestEven DEF PlanNext, Terminated

(* Once all are cut, that is what they are.                                 *)
LEMMA EvenIsBalanced == EvenInv => Balanced
BY DEF EvenInv, Balanced, Spread

(* "overshooting one window tightens the next instead of accumulating"      *)
(* (seismic_common.cpp:86-87): for every corpus, lambda and batch size, a   *)
(* window of two or more terms had less than an even share of the whole     *)
(* load without its last term, and the last window has at most that.        *)
THEOREM WindowsAreBalanced == PlanSpec => []Balanced
<1>1. EvenInv => Balanced
  BY EvenIsBalanced
<1>2. PlanInit => PlanInv /\ EvenInv
  BY InitPlanInv, InitEvenInv
<1>3. PlanInv /\ EvenInv /\ [PlanNext]_planVars => EvenInv'
  BY NextEvenInv
<1> QED
  BY <1>1, <1>2, <1>3, PlanInvHolds, PTL DEF PlanSpec
-----------------------------------------------------------------------------
(* The spill. *)

(* The spill in the directory is the one owned, which has a name.           *)
OwnedInv ==
  /\ builds \in Nat
  /\ files \subseteq {path}
  /\ None \notin files
  /\ pc = "create" => path # None
  /\ pc = "gone" => files = {}

(* Between calls a path is owed only where a mapped file cannot be removed; *)
(* an index that does not spill never owes one.                             *)
OwedInv ==
  /\ unlinks /\ pc \in {"idle", "assign", "destroy", "gone"} => path = None
  /\ ~Spilling => path = None /\ pc \notin {"create", "map", "unlink"}

SpillInv == OwnedInv /\ OwedInv /\ ReadableUnlessThrew
-----------------------------------------------------------------------------
(* A new index owns nothing and has no lists. *)
LEMMA InitSpillInv == Init => SpillInv
BY DEF Init, SpillInv, OwnedInv, OwedInv, ReadableUnlessThrew, None

(* Nothing the invariant mentions changes while a window is built. *)
LEMMA WindowStep ==
  ASSUME SpillInv, UNCHANGED <<indexVars, spillVars, builds, outcome>>,
         pc # "create",
         pc' \in {"idle", "count", "stage", "fill", "cluster", "sink", "assign"},
         pc' = "assign" => path = None,
         pc' = "idle" => pc = "idle"
  PROVE  SpillInv'
BY DEF SpillInv, OwnedInv, OwedInv, ReadableUnlessThrew, Readable, Spilling,
       indexVars, spillVars, None

(* An exception takes the spill it owned with it, mapped or not. *)
LEMMA ThrowStep == SpillInv /\ Throw => SpillInv'
<1> SUFFICES ASSUME SpillInv, Throw PROVE SpillInv'
  OBVIOUS
<1>1. path' = None /\ files' = {}
  <2>1. CASE path = None
    BY <2>1 DEF SpillInv, OwnedInv, Throw, Release, spillVars, None
  <2>2. CASE path # None
    BY <2>2 DEF SpillInv, OwnedInv, Throw, Release, None
  <2>3. QED
    BY <2>1, <2>2
<1>2. OwnedInv' /\ OwedInv'
  BY <1>1 DEF SpillInv, OwnedInv, OwedInv, Throw, Spilling, indexVars, None
<1>3. ReadableUnlessThrew'
  BY DEF ReadableUnlessThrew, Throw
<1>4. QED
  BY <1>2, <1>3 DEF SpillInv

(* The invariant is kept by every step a caller or a build takes. *)
LEMMA NextStep == SpillInv /\ [Next]_vars => SpillInv'
<1> SUFFICES ASSUME SpillInv, [Next]_vars PROVE SpillInv'
  OBVIOUS
<1>1. CASE Add
  BY <1>1 DEF Add, SpillInv, OwnedInv, OwedInv, ReadableUnlessThrew, Readable,
              Spilling, spillVars, None
<1>2. CASE BuildWhole
  BY <1>2 DEF BuildWhole, SpillInv, OwnedInv, OwedInv, ReadableUnlessThrew,
              Spilling, indexVars, spillVars, None
<1>3. CASE BuildRefused
  BY <1>3 DEF BuildRefused, SpillInv, OwnedInv, OwedInv, ReadableUnlessThrew,
              Readable, Spilling, indexVars, spillVars, None
<1>4. CASE BuildSpilling
  <2>1. files' = {} /\ path' # None
    BY <1>4 DEF BuildSpilling, SpillInv, OwnedInv, None
  <2>2. OwnedInv' /\ OwedInv'
    BY <1>4, <2>1 DEF BuildSpilling, SpillInv, OwnedInv, OwedInv, Spilling, indexVars
  <2>3. QED
    BY <1>4, <2>2 DEF BuildSpilling, SpillInv, ReadableUnlessThrew
<1>5. CASE SpillFails
  BY <1>5, ThrowStep DEF SpillFails
<1>6. CASE CreateSpill
  BY <1>6 DEF CreateSpill, SpillInv, OwnedInv, OwedInv, ReadableUnlessThrew,
              Spilling, indexVars
<1>7. CASE CountPostings
  <2>1. CASE Throw
    BY <2>1, ThrowStep
  <2>2. CASE ~Throw
    BY <1>7, <2>2, WindowStep DEF CountPostings, CountAndCut
  <2>3. QED
    BY <2>1, <2>2
<1>8. CASE OpenWindow
  BY <1>8, WindowStep DEF OpenWindow
<1>9. CASE FillRow
  <2>1. CASE Throw
    BY <2>1, ThrowStep
  <2>2. CASE ~Throw
    BY <1>9, <2>2, WindowStep DEF FillRow
  <2>3. QED
    BY <2>1, <2>2
<1>10. CASE SealWindow
  BY <1>10, WindowStep DEF SealWindow
<1>11. CASE \E t \in Terms : ClusterList(t)
  BY <1>11, WindowStep DEF ClusterList
<1>12. CASE LoopDone
  BY <1>12, WindowStep DEF LoopDone
<1>13. CASE Sink
  <2>1. CASE Throw
    BY <2>1, ThrowStep
  <2>2. CASE ~Throw
    BY <1>13, <2>2 DEF Sink, SpillInv, OwnedInv, OwedInv, ReadableUnlessThrew,
                       Spilling, indexVars, spillVars
  <2>3. QED
    BY <2>1, <2>2
<1>14. CASE MapSpill
  <2>1. CASE Throw
    BY <2>1, ThrowStep
  <2>2. CASE ~Throw
    BY <1>14, <2>2 DEF MapSpill, SpillInv, OwnedInv, OwedInv, ReadableUnlessThrew,
                       Spilling, indexVars
  <2>3. QED
    BY <2>1, <2>2
<1>15. CASE Unlink
  BY <1>15 DEF Unlink, SpillInv, OwnedInv, OwedInv, ReadableUnlessThrew,
               Spilling, indexVars, None
<1>16. CASE Assign
  BY <1>16 DEF Assign, SpillInv, OwnedInv, OwedInv, ReadableUnlessThrew, Readable,
               Spilling, spillVars
<1>17. CASE DestroyLists
  BY <1>17 DEF DestroyLists, SpillInv, OwnedInv, OwedInv, ReadableUnlessThrew,
               Spilling, spillVars
<1>18. CASE DestroySpill
  BY <1>18 DEF DestroySpill, SpillInv, OwnedInv, OwedInv, ReadableUnlessThrew,
               Spilling, indexVars, None
<1>19. CASE UNCHANGED vars
  BY <1>19 DEF vars, SpillInv, OwnedInv, OwedInv, ReadableUnlessThrew, Readable,
               Spilling, indexVars, spillVars
<1>20. QED
  BY <1>1, <1>2, <1>3, <1>4, <1>5, <1>6, <1>7, <1>8, <1>9, <1>10, <1>11, <1>12,
     <1>13, <1>14, <1>15, <1>16, <1>17, <1>18, <1>19 DEF Next, Gone

(* The inductive invariant holds of every run. *)
THEOREM SpillInvHolds == Spec => []SpillInv
BY InitSpillInv, NextStep, PTL DEF Spec

(* "a throw anywhere ... takes the partial spill with it": at every step of *)
(* every run the scratch directory holds at most the spill that path_ owes  *)
(* the removal of, and nothing once the index is gone                       *)
(* (seismic_batched_build.h:56-58).                                         *)
THEOREM SpillsAreOwned == Spec => []NothingStranded
<1>1. SpillInv => NothingStranded
  BY DEF SpillInv, OwnedInv, NothingStranded
<1>2. QED
  BY <1>1, SpillInvHolds, PTL

(* Where a mapped file can be unlinked, a process that dies outside build() *)
(* leaves nothing in the scratch directory (seismic_batched_build.h:58-59). *)
THEOREM CrashIsClean == Spec => []CrashLeavesNothing
<1>1. SpillInv => CrashLeavesNothing
  BY DEF SpillInv, OwnedInv, OwedInv, CrashLeavesNothing
<1>2. QED
  BY <1>1, SpillInvHolds, PTL

(* Unless the last build that got to its corpus threw, the lists an index   *)
(* holds between calls can be read (seismic_batched_build.h:28-29).         *)
THEOREM ListsStayReadable == Spec => []ReadableUnlessThrew
<1>1. SpillInv => ReadableUnlessThrew
  BY DEF SpillInv
<1>2. QED
  BY <1>1, SpillInvHolds, PTL
-----------------------------------------------------------------------------
(* A row adds at most its own id. *)
LEMMA ReadRow ==
  ASSUME NEW c, NEW t, NEW n \in Nat, NEW s \in Seq(Nat)
  PROVE  /\ Read(c, t, n, s) \in Seq(Nat)
         /\ Len(s) <= Len(Read(c, t, n, s))
         /\ t \in c[n] => Len(s) < Len(Read(c, t, n, s))
BY DEF Read

(* What is staged is defined by recursion over the rows; the definition is  *)
(* that of a function.                                                      *)
LEMMA StagedEquation ==
  ASSUME NEW c, Len(c) \in Nat, NEW t
  PROVE  Staged(c, t) = [n \in 0 .. Len(c) |-> IF n = 0 THEN <<>> ELSE Read(c, t, n, Staged(c, t)[n - 1])]
  <1> DEFINE step   == [p \in Seq(Nat) \X Nat |-> Read(c, t, p[2], p[1])]
             Row(f) == [n \in 0 .. Len(c) |-> IF n = 0 THEN <<>> ELSE Read(c, t, n, f[n - 1])]
  <1>1. PICK g : Recursion(g, Seq(Nat), <<>>, step, Len(c))
    <2>1. step \in [Seq(Nat) \X Nat -> Seq(Nat)]
      BY ReadRow
    <2>2. <<>> \in Seq(Nat)
      OBVIOUS
    <2> HIDE DEF step
    <2> QED
      BY <2>1, <2>2, RecursionExists
  <1>2. ASSUME NEW n \in 1 .. Len(c)
        PROVE  g[n] = Read(c, t, n, g[n - 1])
    <2>1. g[n - 1] \in Seq(Nat) /\ n \in Nat
      BY <1>1 DEF Recursion
    <2>2. g[n] = step[<<g[n - 1], n>>]
      BY <1>1 DEF Recursion
    <2> QED
      BY <2>1, <2>2
  <1>3. g = Row(g)
    <2>1. g = [n \in 0 .. Len(c) |-> g[n]] /\ g[0] = <<>>
      BY <1>1 DEF Recursion
    <2>2. ASSUME NEW n \in 0 .. Len(c)
          PROVE  g[n] = IF n = 0 THEN <<>> ELSE Read(c, t, n, g[n - 1])
      BY <1>2, <2>1
    <2> QED
      BY <2>1, <2>2
  <1>4. Staged(c, t) = CHOOSE f : f = Row(f)
    BY DEF Staged
  <1> HIDE DEF Row
  <1>5. Staged(c, t) = Row(Staged(c, t))
    BY <1>3, <1>4
  <1> QED
    BY <1>5 DEF Row

(* The same, row by row. *)
LEMMA StagedRow ==
  ASSUME NEW c, Len(c) \in Nat, NEW t
  PROVE  /\ Staged(c, t)[0] = <<>>
         /\ \A n \in 1 .. Len(c) : Staged(c, t)[n] = Read(c, t, n, Staged(c, t)[n - 1])
  <1> DEFINE f == Staged(c, t)
  <1> HIDE DEF f
  <1>1. f = [n \in 0 .. Len(c) |-> IF n = 0 THEN <<>> ELSE Read(c, t, n, f[n - 1])]
    BY StagedEquation DEF f
  <1>2. f[0] = <<>> /\ \A n \in 1 .. Len(c) : f[n] = Read(c, t, n, f[n - 1])
    BY <1>1
  <1> QED
    BY <1>2 DEF f

(* What a row does to what is staged before it. *)
LEMMA StagedNext ==
  ASSUME NEW c, Len(c) \in Nat, NEW t, NEW n \in 1 .. Len(c), Staged(c, t)[n - 1] \in Seq(Nat)
  PROVE  /\ Staged(c, t)[n] \in Seq(Nat)
         /\ Len(Staged(c, t)[n - 1]) <= Len(Staged(c, t)[n])
         /\ t \in c[n] => Len(Staged(c, t)[n - 1]) < Len(Staged(c, t)[n])
  <1> DEFINE s == Staged(c, t)[n - 1]
  <1> HIDE DEF s
  <1>1. Staged(c, t)[n] = Read(c, t, n, s)
    BY StagedRow DEF s
  <1>2. n \in Nat /\ s \in Seq(Nat)
    BY DEF s
  <1>3. /\ Read(c, t, n, s) \in Seq(Nat)
        /\ Len(s) <= Len(Read(c, t, n, s))
        /\ t \in c[n] => Len(s) < Len(Read(c, t, n, s))
    BY <1>2, ReadRow
  <1> QED
    BY <1>1, <1>3 DEF s

(* Ids are staged, however many rows are read. *)
LEMMA StagedType ==
  ASSUME NEW c, Len(c) \in Nat, NEW t
  PROVE  \A n \in 0 .. Len(c) : Staged(c, t)[n] \in Seq(Nat)
  <1> DEFINE S == {n \in Nat : n <= Len(c) => Staged(c, t)[n] \in Seq(Nat)}
  <1>1. 0 \in S
    <2>1. Staged(c, t)[0] = <<>> /\ <<>> \in Seq(Nat)
      BY StagedRow
    <2> QED
      BY <2>1
  <1>2. ASSUME NEW n \in Nat, n \in S
        PROVE  n + 1 \in S
    <2>1. SUFFICES ASSUME NEW m \in 1 .. Len(c), m = n + 1
                   PROVE  Staged(c, t)[m] \in Seq(Nat)
      OBVIOUS
    <2>2. Staged(c, t)[m - 1] \in Seq(Nat)
      BY <1>2, <2>1
    <2> QED
      BY <2>2, StagedNext
  <1> HIDE DEF S
  <1>3. \A n \in Nat : n \in S
    BY <1>1, <1>2, NatSetInduction
  <1> QED
    BY <1>3 DEF S

(* No row takes back what another has staged. *)
LEMMA StagedGrows ==
  ASSUME NEW c, Len(c) \in Nat, NEW t, NEW k \in 0 .. Len(c)
  PROVE  Len(Staged(c, t)[k]) <= Len(Staged(c, t)[Len(c)])
  <1> DEFINE S == {n \in Nat : k <= n /\ n <= Len(c) => Len(Staged(c, t)[k]) <= Len(Staged(c, t)[n])}
  <1>1. 0 \in S
    BY StagedType
  <1>2. ASSUME NEW n \in Nat, n \in S
        PROVE  n + 1 \in S
    <2>1. SUFFICES ASSUME NEW m \in 1 .. Len(c), m = n + 1, k <= m
                   PROVE  Len(Staged(c, t)[k]) <= Len(Staged(c, t)[m])
      OBVIOUS
    <2>2. /\ Staged(c, t)[k] \in Seq(Nat)
          /\ Staged(c, t)[m] \in Seq(Nat)
          /\ Staged(c, t)[m - 1] \in Seq(Nat)
      BY StagedType
    <2>3. CASE k = m
      BY <2>2, <2>3
    <2>4. CASE k # m
      <3>1. Len(Staged(c, t)[m - 1]) <= Len(Staged(c, t)[m])
        BY <2>2, StagedNext
      <3>2. Len(Staged(c, t)[k]) <= Len(Staged(c, t)[m - 1])
        BY <1>2, <2>1, <2>4
      <3> HIDE DEF S
      <3> QED
        BY <2>2, <3>1, <3>2
    <2> QED
      BY <2>3, <2>4
  <1> HIDE DEF S
  <1>3. \A n \in Nat : n \in S
    BY <1>1, <1>2, NatSetInduction
  <1> QED
    BY <1>3 DEF S

(* The window being built ends at the nearest end. *)
LEMMA LeastEnd ==
  ASSUME ends \subseteq Nat, ends # {}
  PROVE  End \in ends /\ \A e \in ends : End <= e
  <1>1. \E x \in ends : \A y \in ends : x <= y
    BY LeastNatural
  <1> QED
    BY <1>1 DEF End, Min

(* A whole-corpus build makes one list of each term. *)
LEMMA WholeBuildList ==
  ASSUME NEW c, Len(c) \in Nat, NEW base \in Nat
  PROVE  /\ WholeBuild(c, base) \in [1 .. Dim -> List]
         /\ \A t \in Terms : WholeBuild(c, base)[t + 1] = ListOf(Postings(c, t), base + t, Len(c))
  <1>1. ASSUME NEW docs \in Seq(Nat), NEW s \in Nat, NEW n \in Nat
        PROVE  ListOf(docs, s, n) \in List
    BY DEF ListOf, EmptyList, List
  <1>2. ASSUME NEW i \in 1 .. Dim
        PROVE  ListOf(Postings(c, i - 1), base + i - 1, Len(c)) \in List
    <2>1. Postings(c, i - 1) \in Seq(Nat)
      BY StagedType DEF Postings
    <2>2. base + i - 1 \in Nat
      BY DimAssumption
    <2> QED
      BY <1>1, <2>1, <2>2
  <1>3. ASSUME NEW t \in Terms
        PROVE  WholeBuild(c, base)[t + 1] = ListOf(Postings(c, t), base + t, Len(c))
    <2>1. t + 1 \in 1 .. Dim /\ (t + 1) - 1 = t /\ base + (t + 1) - 1 = base + t
      BY DimAssumption DEF Terms
    <2> QED
      BY <2>1 DEF WholeBuild
  <1> QED
    BY <1>2, <1>3 DEF WholeBuild

(* Of no corpus, lists without postings. *)
LEMMA WholeBuildOfNothing ==
  ASSUME NEW base \in Nat
  PROVE  WholeBuild(<<>>, base) = [i \in 1 .. Dim |-> EmptyList]
  <1>1. ASSUME NEW t
        PROVE  Postings(<<>>, t) = <<>>
    <2>1. Len(<<>>) = 0
      OBVIOUS
    <2> QED
      BY <2>1, StagedRow DEF Postings
  <1>2. ASSUME NEW t, NEW s
        PROVE  ListOf(Postings(<<>>, t), s, Len(<<>>)) = EmptyList
    BY <1>1 DEF ListOf
  <1> QED
    BY <1>2 DEF WholeBuild

(* A window is being built. *)
Clustering == pc \in {"stage", "fill", "cluster", "sink"}
(* A spill is being built. *)
Owed == pc \in {"create", "count", "stage", "fill", "cluster", "sink", "map", "unlink"}

(* Its name is known, and once it is mapped, where. *)
SpillNamed ==
  Spilling => /\ Owed => path # None
              /\ pc \in {"unlink", "assign"} => mapping # None

(* The windows to build end at the last term, and none has begun.           *)
CutInv ==
  Clustering =>
    /\ Covered(corpus)
    /\ counts = PostingCounts
    /\ seed \in Seeds
    /\ ends \subseteq 1 .. Dim /\ Dim \in ends
    /\ \A e \in ends : begin < e

(* The rows read are staged; a thread's list is that of the whole build.    *)
StagedInv ==
  /\ pc = "fill" =>
       /\ doc \in 1 .. Len(corpus) + 1
       /\ ids = [t \in Window |-> Staged(corpus, t)[doc - 1]]
  /\ pc \in {"cluster", "sink"} =>
       /\ ids = [t \in Window |-> Postings(corpus, t)]
       /\ DOMAIN clustered \subseteq Window
       /\ \A t \in DOMAIN clustered : clustered[t] = WholeBuild(corpus, seed)[t + 1]
  /\ pc = "sink" => DOMAIN clustered = Window

(* The windows done are in their places, as the whole build has them.       *)
SectionInv ==
  /\ pc = "count" => section = IF Spilling THEN <<>> ELSE [i \in 1 .. Dim |-> EmptyList]
  /\ Clustering =>
       /\ Len(section) = IF Spilling THEN begin ELSE Dim
       /\ \A i \in 1 .. begin : section[i] = WholeBuild(corpus, seed)[i]
  /\ pc \in {"map", "unlink", "assign"} =>
       /\ Covered(corpus)
       /\ \E s \in Seeds : section = WholeBuild(corpus, s)

(* Where no build is under way, or one has only named its spill. *)
Quiet == {"idle", "create", "destroy", "gone"}

(* There is nothing to say of a build that is not under way. *)
LEMMA QuietStep ==
  ASSUME pc' \in Quiet
  PROVE  CutInv' /\ StagedInv' /\ SectionInv'
BY DEF Quiet, CutInv, StagedInv, SectionInv, Clustering

(* The types of what building windows changes. *)
BuildTypes ==
  /\ seed \in Nat
  /\ counts \in {<<>>} \union [Terms -> Nat]
  /\ ends \subseteq 1 .. Dim
  /\ begin \in 0 .. Dim
  /\ doc \in Nat \ {0}
  /\ DOMAIN ids \subseteq Terms
  /\ DOMAIN clustered \subseteq Terms
  /\ section \in Seq(List)

(* The types of what calls and the spill change. *)
CallTypes ==
  /\ batchSize \in BatchSizes
  /\ unlinks \in BOOLEAN
  /\ corpus \in Seq(Rows)
  /\ lists = Unbuilt \/ BuiltFrom(corpus, lists)
  /\ home \in {Heap} \union 1 .. builds
  /\ path \in 0 .. builds
  /\ mapping \in 0 .. builds
  /\ files \subseteq 1 .. builds
  /\ builds \in Nat
  /\ outcome \in {"ok", "threw"}
  /\ pc \in {"idle", "create", "count", "stage", "fill", "cluster", "sink", "map",
             "unlink", "assign", "destroy", "gone"}

(* Together they are all. *)
LEMMA TypesSplit == TypeOK <=> CallTypes /\ BuildTypes
BY DEF TypeOK, CallTypes, BuildTypes

(* A step outside a window. *)
LEMMA SameBuildTypes == BuildTypes /\ UNCHANGED buildVars => BuildTypes'
BY DEF BuildTypes, buildVars, windowVars

(* A step inside a window. *)
LEMMA SameCallTypes ==
  ASSUME CallTypes, UNCHANGED <<indexVars, spillVars, builds, outcome>>,
         pc' \in {"idle", "create", "count", "stage", "fill", "cluster", "sink", "map",
                  "unlink", "assign", "destroy", "gone"}
  PROVE  CallTypes'
BY DEF CallTypes, indexVars, spillVars

(* An exception. *)
LEMMA ThrowCallTypes == CallTypes /\ Throw => CallTypes'
<1> SUFFICES ASSUME CallTypes, Throw PROVE CallTypes'
  OBVIOUS
<1>1. path' \in 0 .. builds /\ mapping' \in 0 .. builds /\ files' \subseteq 1 .. builds
  <2>1. CASE path = None
    BY <2>1 DEF CallTypes, Throw, Release, spillVars
  <2>2. CASE path # None
    <3>1. path' = 0 /\ mapping' = 0 /\ files' \subseteq files
      BY <2>2 DEF Throw, Release, None
    <3> QED
      BY <3>1 DEF CallTypes
  <2> QED
    BY <2>1, <2>2
<1> QED
  BY <1>1 DEF CallTypes, Throw, indexVars

(* Sequences that agree as far as n have the same first n elements.         *)
LEMMA SamePrefix ==
  ASSUME NEW S, NEW c, NEW e, NEW n \in Nat,
         \A i \in 1 .. n : c[i] \in S /\ e[i] \in S /\ e[i] = c[i]
  PROVE  SubSeq(e, 1, n) = SubSeq(c, 1, n)
<1>1. /\ SubSeq(c, 1, n) \in Seq(S) /\ Len(SubSeq(c, 1, n)) = n
      /\ \A i \in 1 .. n : SubSeq(c, 1, n)[i] = c[i]
  OBVIOUS
<1>2. /\ SubSeq(e, 1, n) \in Seq(S) /\ Len(SubSeq(e, 1, n)) = n
      /\ \A i \in 1 .. n : SubSeq(e, 1, n)[i] = e[i]
  OBVIOUS
<1> QED
  BY <1>1, <1>2

(* What was built before a row was added is a build of rows that are there. *)
LEMMA BuildsKept ==
  ASSUME NEW c \in Seq(Rows), NEW row \in Rows
  PROVE  /\ Append(c, row) \in Seq(Rows)
         /\ \A built : BuiltFrom(c, built) => BuiltFrom(Append(c, row), built)
<1> DEFINE longer == Append(c, row)
<1>1. /\ Len(c) \in Nat /\ longer \in Seq(Rows) /\ Len(longer) = Len(c) + 1
      /\ \A i \in 1 .. Len(c) : longer[i] = c[i] /\ c[i] \in Rows
  BY SequenceElement
<1> HIDE DEF longer
<1>2. ASSUME NEW n \in 0 .. Len(c)
      PROVE  n \in 0 .. Len(longer) /\ SubSeq(longer, 1, n) = SubSeq(c, 1, n)
  <2>1. n \in Int /\ n \in 0 .. Len(longer) /\ \A i \in 1 .. n : i \in 1 .. Len(c)
    BY <1>1
  <2>2. \A i \in 1 .. n : c[i] \in Rows /\ longer[i] \in Rows /\ longer[i] = c[i]
    BY <1>1, <2>1
  <2>3. SubSeq(longer, 1, n) = SubSeq(c, 1, n)
    BY <2>1, <2>2, SamePrefix
  <2> QED
    BY <2>1, <2>3
<1>3. \A built : BuiltFrom(c, built) => BuiltFrom(longer, built)
  BY <1>2 DEF BuiltFrom
<1> QED
  BY <1>1, <1>3 DEF longer

(* A build of a corpus is one of rows it has. *)
LEMMA WholeIsBuilt ==
  ASSUME NEW c \in Seq(Rows), NEW s \in Seeds
  PROVE  BuiltFrom(c, WholeBuild(c, s))
<1>1. Len(c) \in Nat /\ SubSeq(c, 1, Len(c)) = c
  <2> DEFINE n == Len(c)
             p == SubSeq(c, 1, n)
  <2>1. n \in Nat /\ \A i \in 1 .. n : c[i] \in Rows
    BY SequenceElement
  <2>2. p \in Seq(Rows) /\ Len(p) = n /\ \A i \in 1 .. n : p[i] = c[i]
    BY <2>1
  <2> HIDE DEF p
  <2>3. p = c
    BY <2>2
  <2> QED
    BY <2>1, <2>3 DEF p
<1>2. Len(c) \in 0 .. Len(c)
  BY <1>1
<1> QED
  BY <1>1, <1>2 DEF BuiltFrom

(* Every step keeps the types of what calls change. *)
LEMMA CallTypesStep ==
  ASSUME SpillInv, TypeOK, SpillNamed, SectionInv, Next
  PROVE  CallTypes'
<1>1. CallTypes /\ BuildTypes
  BY TypesSplit
<1>2. CASE Add
  <2>1. PICK row \in Rows : corpus' = Append(corpus, row)
    BY <1>2 DEF Add
  <2>2. corpus' \in Seq(Rows) /\ \A built : BuiltFrom(corpus, built) => BuiltFrom(corpus', built)
    BY <1>1, <2>1, BuildsKept DEF CallTypes
  <2> QED
    BY <1>1, <1>2, <2>2 DEF Add, CallTypes, spillVars
<1>3. CASE BuildWhole
  BY <1>1, <1>3 DEF BuildWhole, CallTypes, indexVars, spillVars
<1>4. CASE BuildRefused
  BY <1>1, <1>4 DEF BuildRefused, CallTypes, indexVars, spillVars
<1>5. CASE BuildSpilling
  <2>1. builds' \in Nat /\ path' = builds' /\ builds' = builds + 1
    BY <1>1, <1>5 DEF BuildSpilling, CallTypes
  <2>2. mapping' \in {mapping, None} /\ files' \subseteq files
    BY <1>5 DEF BuildSpilling
  <2>3. UNCHANGED <<indexVars, outcome>> /\ pc' = "create"
    BY <1>5 DEF BuildSpilling
  <2>4. mapping' \in 0 .. builds' /\ path' \in 0 .. builds' /\ files' \subseteq 1 .. builds'
    BY <1>1, <2>1, <2>2 DEF CallTypes, None
  <2> QED
    BY <1>1, <2>1, <2>3, <2>4 DEF CallTypes, indexVars
<1>6. CASE SpillFails
  BY <1>1, <1>6, ThrowCallTypes DEF SpillFails
<1>7. CASE CreateSpill
  <2>1. path \in 1 .. builds
    BY <1>1, <1>7 DEF CallTypes, SpillInv, OwnedInv, CreateSpill, None
  <2> QED
  BY <1>1, <1>7, <2>1 DEF CreateSpill, CallTypes, indexVars
<1>8. CASE CountPostings
  <2>1. CASE Throw
    BY <1>1, <2>1, ThrowCallTypes
  <2>2. CASE ~Throw
    BY <1>1, <1>8, <2>2, SameCallTypes DEF CountPostings, CountAndCut
  <2> QED
    BY <2>1, <2>2
<1>9. CASE OpenWindow
  BY <1>1, <1>9, SameCallTypes DEF OpenWindow
<1>10. CASE FillRow
  BY <1>1, <1>10, ThrowCallTypes, SameCallTypes DEF FillRow
<1>11. CASE SealWindow
  BY <1>1, <1>11, SameCallTypes DEF SealWindow
<1>12. ASSUME NEW t \in Terms, ClusterList(t)
       PROVE  CallTypes'
  BY <1>1, <1>12, SameCallTypes DEF ClusterList
<1>13. CASE LoopDone
  BY <1>1, <1>13, SameCallTypes DEF LoopDone
<1>14. CASE Sink
  BY <1>1, <1>14, ThrowCallTypes, SameCallTypes DEF Sink
<1>15. CASE MapSpill
  BY <1>1, <1>15, ThrowCallTypes DEF MapSpill, CallTypes, indexVars
<1>16. CASE Unlink
  <2>1. path' \in {path, 0} /\ files' \subseteq files
    BY <1>16 DEF Unlink, None
  <2>2. UNCHANGED <<indexVars, mapping, builds, outcome>> /\ pc' = "assign"
    BY <1>16 DEF Unlink
  <2> QED
    BY <1>1, <2>1, <2>2 DEF CallTypes, indexVars
<1>17. CASE Assign
  <2>1. PICK s \in Seeds : section = WholeBuild(corpus, s)
    BY <1>17 DEF Assign, SectionInv
  <2>2. BuiltFrom(corpus, section)
    BY <1>1, <2>1, WholeIsBuilt DEF CallTypes
  <2>3. home' \in {Heap} \union 1 .. builds
    BY <1>1, <1>17 DEF Assign, CallTypes, SpillNamed, None
  <2> QED
    BY <1>1, <1>17, <2>2, <2>3 DEF Assign, CallTypes, spillVars
<1>18. CASE DestroyLists
  BY <1>1, <1>18 DEF DestroyLists, CallTypes, spillVars
<1>19. CASE DestroySpill
  BY <1>1, <1>19 DEF DestroySpill, CallTypes, indexVars, None
<1>20. CASE Gone
  BY <1>1, <1>20 DEF Gone, vars, CallTypes, indexVars, spillVars
<1> QED
  BY <1>2, <1>3, <1>4, <1>5, <1>6, <1>7, <1>8, <1>9, <1>10, <1>11, <1>12, <1>13, <1>14,
     <1>15, <1>16, <1>17, <1>18, <1>19, <1>20 DEF Next

(* The inductive invariant of what a build makes. *)
BInv == SpillInv /\ TypeOK /\ SpillNamed /\ CutInv /\ StagedInv /\ SectionInv

(* Every step keeps the spill named. *)
LEMMA SpillNamedStep ==
  ASSUME BInv, Next
  PROVE  SpillNamed'
<1> USE DEF SpillNamed, Owed
<1>1. CASE Add
  BY <1>1 DEF Add
<1>2. CASE BuildWhole
  BY <1>2 DEF BuildWhole, Spilling, indexVars
<1>3. CASE BuildRefused
  BY <1>3 DEF BuildRefused
<1>4. CASE BuildSpilling
  BY <1>4 DEF BuildSpilling, BInv, TypeOK, None
<1>5. CASE SpillFails
  BY <1>5 DEF SpillFails, Throw
<1>6. CASE CreateSpill
  BY <1>6 DEF CreateSpill, BInv, Spilling, indexVars
<1>7. CASE CountPostings
  BY <1>7 DEF CountPostings, CountAndCut, Throw, BInv, Spilling, indexVars, spillVars
<1>8. CASE OpenWindow
  BY <1>8 DEF OpenWindow, BInv, Spilling, indexVars, spillVars
<1>9. CASE FillRow
  BY <1>9 DEF FillRow, Throw, BInv, Spilling, indexVars, spillVars
<1>10. CASE SealWindow
  BY <1>10 DEF SealWindow, BInv, Spilling, indexVars, spillVars
<1>11. ASSUME NEW t \in Terms, ClusterList(t)
       PROVE  SpillNamed'
  BY <1>11 DEF ClusterList, BInv, Spilling, indexVars, spillVars
<1>12. CASE LoopDone
  BY <1>12 DEF LoopDone, BInv, Spilling, indexVars, spillVars
<1>13. CASE Sink
  BY <1>13 DEF Sink, Throw, BInv, Spilling, indexVars, spillVars
<1>14. CASE MapSpill
  BY <1>14 DEF MapSpill, Throw, BInv, Spilling, indexVars
<1>15. CASE Unlink
  BY <1>15 DEF Unlink, BInv, Spilling, indexVars
<1>16. CASE Assign
  BY <1>16 DEF Assign
<1>17. CASE DestroyLists \/ DestroySpill
  BY <1>17 DEF DestroyLists, DestroySpill
<1>18. CASE Gone
  BY <1>18 DEF Gone, vars
<1> QED
  BY <1>1, <1>2, <1>3, <1>4, <1>5, <1>6, <1>7, <1>8, <1>9, <1>10, <1>11, <1>12, <1>13, <1>14,
     <1>15, <1>16, <1>17, <1>18 DEF Next

(* What a build under way has made so far. *)
Made == BuildTypes /\ CutInv /\ StagedInv /\ SectionInv

(* A build ends, by its return or an exception, or has not begun. *)
LEMMA QuietMade ==
  ASSUME BInv, pc' \in Quiet, UNCHANGED buildVars
  PROVE  Made'
BY QuietStep, TypesSplit, SameBuildTypes DEF BInv, Made

(* The counting pass, and the cut. *)
LEMMA CountMade ==
  ASSUME BInv, CountPostings
  PROVE  Made'
<1>1. CASE Throw
  BY <1>1, QuietMade DEF Throw, Quiet
<1>2. CASE ~Throw
  <2>1. /\ Covered(corpus) /\ pc = "count" /\ pc' = "stage"
        /\ seed' \in Seeds /\ counts' = PostingCounts /\ ends' \in Cuts /\ begin' = 0
        /\ UNCHANGED <<indexVars, spillVars, doc, ids, clustered, section>>
    BY <1>2 DEF CountPostings, CountAndCut
  <2>2. PostingCounts \in [Terms -> Nat]
    <3>1. ASSUME NEW t \in Terms
          PROVE  Len(Postings(corpus, t)) \in Nat
      BY StagedType DEF Postings, BInv, TypeOK
    <3> QED
      BY <3>1 DEF PostingCounts
  <2>3. ends' \subseteq 1 .. Dim /\ Dim \in ends' /\ \A e \in ends' : 0 < e
    BY <2>1, DimAssumption DEF Cuts
  <2>4. BuildTypes'
    BY <2>1, <2>2, <2>3, SeedsAssumption, DimAssumption DEF BInv, TypeOK, BuildTypes
  <2>5. corpus' = corpus /\ PostingCounts' = PostingCounts /\ Spilling' = Spilling
    BY <2>1 DEF indexVars, PostingCounts, Spilling
  <2>6. CutInv'
    BY <2>1, <2>3, <2>5 DEF CutInv
  <2>7. SectionInv'
    <3>1. section = IF Spilling THEN <<>> ELSE [i \in 1 .. Dim |-> EmptyList]
      BY <2>1 DEF BInv, SectionInv
    <3>2. Len(section) = IF Spilling THEN 0 ELSE Dim
      BY <3>1, DimAssumption
    <3> QED
      BY <2>1, <2>5, <3>2 DEF SectionInv, Clustering
  <2> QED
    BY <2>1, <2>4, <2>6, <2>7 DEF Made, StagedInv
<1> QED
  BY <1>1, <1>2

(* Between two windows: what the sections hold is as before. *)
LEMMA SameSection ==
  ASSUME BInv, Clustering, Clustering',
         UNCHANGED <<batchSize, corpus, seed, counts, ends, begin, section>>
  PROVE  CutInv' /\ SectionInv'
<1>1. PostingCounts' = PostingCounts /\ Spilling' = Spilling
  BY DEF PostingCounts, Spilling
<1>2. CutInv'
  BY <1>1 DEF BInv, CutInv
<1>3. SectionInv'
  BY <1>1 DEF BInv, SectionInv, Clustering
<1> QED
  BY <1>2, <1>3

(* The window is the terms up to the nearest end. *)
LEMMA WindowTerms ==
  ASSUME BInv, Clustering
  PROVE  /\ End \in ends /\ End \in 1 .. Dim /\ begin < End
         /\ \A e \in ends : End <= e
         /\ Window = {t \in Terms : begin <= t /\ t < End}
<1>1. ends \subseteq 1 .. Dim /\ Dim \in ends /\ \A e \in ends : begin < e
  BY DEF BInv, CutInv
<1>2. begin \in Nat /\ Dim \in Nat
  BY DimAssumption DEF BInv, TypeOK
<1>3. End \in ends /\ \A e \in ends : End <= e
  BY <1>1, LeastEnd
<1>4. End \in 1 .. Dim /\ begin < End
  BY <1>1, <1>3
<1> HIDE DEF End
<1>5. Window = {t \in Terms : begin <= t /\ t < End}
  BY <1>2, <1>4 DEF Window, Terms
<1> QED
  BY <1>3, <1>4, <1>5

(* Nothing is staged when a window is opened. *)
LEMMA OpenMade ==
  ASSUME BInv, OpenWindow
  PROVE  Made'
<1>1. /\ pc = "stage" /\ pc' = "fill" /\ doc' = 1 /\ ids' = [t \in Window |-> <<>>]
      /\ UNCHANGED <<batchSize, corpus, seed, counts, ends, begin, section, clustered>>
  BY DEF OpenWindow, indexVars
<1>2. Clustering /\ Clustering'
  BY <1>1 DEF Clustering
<1>3. CutInv' /\ SectionInv'
  BY <1>1, <1>2, SameSection
<1>4. Window' = Window
  BY <1>1 DEF Window, End
<1>5. Window \subseteq Terms
  BY <1>2, WindowTerms
<1>6. BuildTypes'
  BY <1>1, <1>5 DEF BInv, TypeOK, BuildTypes
<1>7. Len(corpus) \in Nat
  BY DEF BInv, TypeOK
<1>8. StagedInv'
  <2>1. \A t : Staged(corpus, t)[0] = <<>>
    BY <1>7, StagedRow
  <2>2. doc' - 1 = 0 /\ doc' \in 1 .. Len(corpus) + 1
    BY <1>1, <1>7
  <2>3. ids' = [t \in Window' |-> Staged(corpus', t)[doc' - 1]]
    BY <1>1, <1>4, <2>1, <2>2
  <2> QED
    BY <1>1, <2>2, <2>3 DEF StagedInv
<1> QED
  BY <1>3, <1>6, <1>8 DEF Made

(* A row is read into the window. *)
LEMMA FillMade ==
  ASSUME BInv, FillRow
  PROVE  Made'
<1>1. CASE Throw
  BY <1>1, QuietMade DEF Throw, Quiet
<1>2. CASE ~Throw
  <2>1. /\ pc = "fill" /\ pc' = "fill" /\ doc <= Len(corpus) /\ doc' = doc + 1
        /\ ids' = [t \in Window |-> IF t \in corpus[doc] THEN Append(ids[t], doc) ELSE ids[t]]
        /\ UNCHANGED <<batchSize, corpus, seed, counts, ends, begin, section, clustered>>
    BY <1>2 DEF FillRow, indexVars
  <2>2. Clustering /\ Clustering'
    BY <2>1 DEF Clustering
  <2>3. CutInv' /\ SectionInv'
    BY <2>1, <2>2, SameSection
  <2>4. Window' = Window /\ Window \subseteq Terms
    BY <2>1, <2>2, WindowTerms DEF Window, End
  <2>5. Len(corpus) \in Nat /\ doc \in 1 .. Len(corpus)
    BY <2>1 DEF BInv, TypeOK
  <2>6. BuildTypes'
    <3>1. DOMAIN ids' \subseteq Terms /\ doc' \in Nat \ {0}
      BY <2>1, <2>4, <2>5
    <3> QED
      BY <2>1, <3>1 DEF BInv, TypeOK, BuildTypes
  <2>7. ASSUME NEW t \in Window
        PROVE  ids'[t] = Staged(corpus, t)[doc]
    <3>1. ids[t] = Staged(corpus, t)[doc - 1]
      BY <2>1 DEF BInv, StagedInv
    <3>2. ids'[t] = Read(corpus, t, doc, ids[t])
      BY <2>1 DEF Read
    <3>3. Staged(corpus, t)[doc] = Read(corpus, t, doc, Staged(corpus, t)[doc - 1])
      BY <2>5, StagedRow
    <3> QED
      BY <3>1, <3>2, <3>3
  <2>8. StagedInv'
    <3>1. doc' - 1 = doc /\ doc' \in 1 .. Len(corpus) + 1
      BY <2>1, <2>5
    <3>2. ids' = [t \in Window |-> ids'[t]]
      BY <2>1
    <3>3. ids' = [t \in Window' |-> Staged(corpus', t)[doc' - 1]]
      BY <2>1, <2>4, <2>7, <3>1, <3>2
    <3> QED
      BY <2>1, <3>1, <3>3 DEF StagedInv
  <2> QED
    BY <2>3, <2>6, <2>8 DEF Made
<1> QED
  BY <1>1, <1>2

(* All rows are read: the ids staged are the postings. *)
LEMMA SealMade ==
  ASSUME BInv, SealWindow
  PROVE  Made'
<1>1. /\ pc = "fill" /\ pc' = "cluster" /\ doc > Len(corpus) /\ clustered' = <<>>
      /\ UNCHANGED <<batchSize, corpus, seed, counts, ends, begin, section, doc, ids>>
  BY DEF SealWindow, indexVars
<1>2. Clustering /\ Clustering'
  BY <1>1 DEF Clustering
<1>3. CutInv' /\ SectionInv'
  BY <1>1, <1>2, SameSection
<1>4. Window' = Window
  BY <1>1 DEF Window, End
<1>5. DOMAIN clustered' = {}
  BY <1>1
<1>6. BuildTypes'
  BY <1>1, <1>5 DEF BInv, TypeOK, BuildTypes
<1>7. doc - 1 = Len(corpus)
  BY <1>1 DEF BInv, TypeOK, StagedInv
<1>8. ids' = [t \in Window' |-> Postings(corpus', t)]
  BY <1>1, <1>4, <1>7 DEF BInv, StagedInv, Postings
<1>9. StagedInv'
  BY <1>1, <1>5, <1>8 DEF StagedInv
<1> QED
  BY <1>3, <1>6, <1>9 DEF Made

(* A thread clusters a list, as the whole build does. *)
LEMMA ClusterMade ==
  ASSUME BInv, NEW t \in Terms, ClusterList(t)
  PROVE  Made'
<1>1. /\ pc = "cluster" /\ pc' = "cluster" /\ t \in Window
      /\ clustered' = [u \in DOMAIN clustered \union {t} |->
                        IF u = t THEN ListOf(ids[t], SeedOf(t), Len(corpus)) ELSE clustered[u]]
      /\ UNCHANGED <<batchSize, corpus, seed, counts, ends, begin, section, doc, ids>>
  BY DEF ClusterList, indexVars
<1>2. Clustering /\ Clustering'
  BY <1>1 DEF Clustering
<1>3. CutInv' /\ SectionInv'
  BY <1>1, <1>2, SameSection
<1>4. Window' = Window /\ Window \subseteq Terms
  BY <1>1, <1>2, WindowTerms DEF Window, End
<1>5. /\ DOMAIN clustered' = DOMAIN clustered \union {t}
      /\ \A u \in DOMAIN clustered \ {t} : clustered'[u] = clustered[u]
      /\ clustered'[t] = ListOf(ids[t], SeedOf(t), Len(corpus))
  BY <1>1
<1>6. BuildTypes'
  BY <1>1, <1>5 DEF BInv, TypeOK, BuildTypes
<1>7. clustered'[t] = WholeBuild(corpus, seed)[t + 1]
  <2>1. ids[t] = Postings(corpus, t)
    BY <1>1 DEF BInv, StagedInv
  <2>2. Len(corpus) \in Nat /\ seed \in Nat
    BY DEF BInv, TypeOK
  <2>3. WholeBuild(corpus, seed)[t + 1] = ListOf(Postings(corpus, t), seed + t, Len(corpus))
    BY <2>2, WholeBuildList
  <2> QED
    BY <1>5, <2>1, <2>3 DEF SeedOf
<1>8. StagedInv'
  <2>1. /\ ids = [u \in Window |-> Postings(corpus, u)]
        /\ DOMAIN clustered \subseteq Window
        /\ \A u \in DOMAIN clustered : clustered[u] = WholeBuild(corpus, seed)[u + 1]
    BY <1>1 DEF BInv, StagedInv
  <2>2. /\ ids' = [u \in Window' |-> Postings(corpus', u)]
        /\ DOMAIN clustered' \subseteq Window'
        /\ \A u \in DOMAIN clustered' : clustered'[u] = WholeBuild(corpus', seed')[u + 1]
    BY <1>1, <1>4, <1>5, <1>7, <2>1
  <2> QED
    BY <1>1, <2>2 DEF StagedInv
<1> QED
  BY <1>3, <1>6, <1>8 DEF Made

(* All lists of the window are clustered. *)
LEMMA LoopDoneMade ==
  ASSUME BInv, LoopDone
  PROVE  Made'
<1>1. /\ pc = "cluster" /\ pc' = "sink" /\ DOMAIN clustered = Window
      /\ UNCHANGED <<batchSize, corpus, seed, counts, ends, begin, section, doc, ids, clustered>>
  BY DEF LoopDone, indexVars, buildVars, windowVars
<1>2. Clustering /\ Clustering'
  BY <1>1 DEF Clustering
<1>3. CutInv' /\ SectionInv'
  BY <1>1, <1>2, SameSection
<1>4. Window' = Window
  BY <1>1 DEF Window, End
<1>5. BuildTypes'
  BY <1>1 DEF BInv, TypeOK, BuildTypes
<1>6. StagedInv'
  BY <1>1, <1>4 DEF BInv, StagedInv
<1> QED
  BY <1>3, <1>5, <1>6 DEF Made

(* The window's lists come where the whole build has them. *)
LEMMA SinkMade ==
  ASSUME BInv, Sink
  PROVE  Made'
<1>1. CASE Throw
  BY <1>1, QuietMade DEF Throw, Quiet
<1>2. CASE ~Throw
  <2> DEFINE whole == WholeBuild(corpus, seed)
  <2>1. /\ pc = "sink" /\ begin' = End /\ ends' = ends \ {End}
        /\ section' = IF Spilling THEN section \o WindowSection
                                  ELSE [i \in 1 .. Dim |-> IF i - 1 \in Window THEN clustered[i - 1] ELSE section[i]]
        /\ pc' = IF ends' # {} THEN "stage" ELSE IF Spilling THEN "map" ELSE "assign"
        /\ UNCHANGED <<batchSize, corpus, seed, counts, doc, ids, clustered>>
    BY <1>2 DEF Sink, indexVars
  <2>2. Clustering
    BY <2>1 DEF Clustering
  <2>3. /\ End \in ends /\ End \in 1 .. Dim /\ begin < End /\ begin \in Nat /\ Dim \in Nat
        /\ \A e \in ends : End <= e
        /\ Window = {t \in Terms : begin <= t /\ t < End}
    BY <2>2, WindowTerms, DimAssumption DEF BInv, TypeOK
  <2>4. /\ Covered(corpus) /\ counts = PostingCounts /\ seed \in Seeds
        /\ ends \subseteq 1 .. Dim /\ Dim \in ends
    BY <2>2 DEF BInv, CutInv
  <2>5. \A t \in Window : clustered[t] = whole[t + 1]
    BY <2>1 DEF BInv, StagedInv
  <2>6. whole \in [1 .. Dim -> List]
    BY <2>4, WholeBuildList, SeedsAssumption DEF BInv, TypeOK
  <2>7. /\ Len(section) = IF Spilling THEN begin ELSE Dim
        /\ \A i \in 1 .. begin : section[i] = whole[i]
        /\ section \in Seq(List)
    BY <2>2 DEF BInv, SectionInv, TypeOK
  <2> HIDE DEF whole, End
  <2>8. /\ section' \in Seq(List)
        /\ Len(section') = IF Spilling THEN End ELSE Dim
        /\ \A i \in 1 .. End : section'[i] = whole[i]
    <3>1. ASSUME NEW i \in begin + 1 .. End
          PROVE  /\ i - 1 \in Window /\ i \in 1 .. Dim
                 /\ clustered[i - 1] = whole[i] /\ clustered[i - 1] \in List
      <4>1. i - 1 \in Window /\ (i - 1) + 1 = i /\ i \in 1 .. Dim
        BY <2>3 DEF Terms
      <4> QED
        BY <4>1, <2>5, <2>6
    <3>2. CASE Spilling
      <4>1. /\ WindowSection \in Seq(List) /\ Len(WindowSection) = End - begin
            /\ \A k \in 1 .. End - begin : WindowSection[k] = whole[begin + k]
        <5>1. ASSUME NEW k \in 1 .. End - begin
              PROVE  clustered[begin + k - 1] = whole[begin + k] /\ clustered[begin + k - 1] \in List
          <6>1. begin + k \in begin + 1 .. End /\ begin + k - 1 = (begin + k) - 1
            BY <2>3
          <6> QED
            BY <3>1, <6>1
        <5>2. End - begin \in Nat
          BY <2>3
        <5> QED
          BY <5>1, <5>2 DEF WindowSection
      <4>2. section' = section \o WindowSection /\ Len(section) = begin
        BY <2>1, <2>7, <3>2
      <4>3. Len(section') = End /\ section' \in Seq(List)
        <5>1. section \o WindowSection \in Seq(List)
          BY <2>7, <4>1
        <5>2. Len(section \o WindowSection) = Len(section) + Len(WindowSection)
          BY <2>7, <4>1
        <5>3. begin + (End - begin) = End
          BY <2>3
        <5> QED
          BY <4>1, <4>2, <5>1, <5>2, <5>3
      <4>4. ASSUME NEW i \in 1 .. End
            PROVE  section'[i] = whole[i]
        <5>1. CASE i <= begin
          BY <2>3, <2>7, <4>1, <4>2, <5>1
        <5>2. CASE i > begin
          <6>1. i - begin \in 1 .. End - begin /\ begin + (i - begin) = i
            BY <2>3, <5>2
          <6>2. section'[i] = WindowSection[i - begin]
            BY <2>3, <2>7, <4>1, <4>2, <5>2, <6>1
          <6> QED
            BY <4>1, <6>1, <6>2
        <5> QED
          BY <2>3, <5>1, <5>2
      <4> QED
        BY <3>2, <4>3, <4>4
    <3>3. CASE ~Spilling
      <4>1. section' = [i \in 1 .. Dim |-> IF i - 1 \in Window THEN clustered[i - 1] ELSE section[i]]
        BY <2>1, <3>3
      <4>2. Len(section) = Dim
        BY <2>7, <3>3
      <4>3. ASSUME NEW i \in 1 .. Dim
            PROVE  section'[i] \in List /\ (i <= End => section'[i] = whole[i])
        <5>1. CASE i - 1 \in Window
          <6>1. i \in begin + 1 .. End
            BY <2>3, <5>1
          <6> QED
            BY <3>1, <4>1, <5>1, <6>1
        <5>2. CASE i - 1 \notin Window
          <6>1. i <= End => i <= begin
            BY <2>3, <5>2 DEF Terms
          <6> QED
            BY <2>7, <4>1, <4>2, <5>2, <6>1
        <5> QED
          BY <5>1, <5>2
      <4>4. section' \in Seq(List) /\ Len(section') = Dim
        BY <2>3, <4>1, <4>3
      <4> QED
        BY <2>3, <3>3, <4>3, <4>4
    <3> QED
      BY <3>2, <3>3
  <2>9. ends' \subseteq 1 .. Dim /\ begin' \in 0 .. Dim /\ \A e \in ends' : begin' < e
    BY <2>1, <2>3, <2>4
  <2>10. BuildTypes'
    BY <2>1, <2>8, <2>9 DEF BInv, TypeOK, BuildTypes
  <2>11. StagedInv'
    BY <2>1 DEF StagedInv
  <2>12. Covered(corpus') /\ whole' = whole /\ Spilling' = Spilling /\ PostingCounts' = PostingCounts
    BY <2>1, <2>4 DEF Spilling, PostingCounts, whole
  <2>13. CASE ends' # {}
    <3>1. Dim \in ends'
      <4>1. PICK e \in ends : e # End
        BY <2>1, <2>13
      <4>2. End <= e /\ e \in 1 .. Dim
        BY <2>3, <2>4
      <4>3. End # Dim
        BY <2>3, <4>1, <4>2
      <4> QED
        BY <2>1, <2>4, <4>3
    <3>2. CutInv'
      BY <2>1, <2>4, <2>9, <2>12, <3>1 DEF CutInv
    <3>3. SectionInv'
      BY <2>1, <2>8, <2>12, <2>13 DEF SectionInv, whole
    <3> QED
      BY <2>10, <2>11, <3>2, <3>3 DEF Made
  <2>14. CASE ends' = {}
    <3>1. End = Dim
      BY <2>1, <2>4, <2>14
    <3>2. section' = whole
      <4>1. Len(section') = Dim
        BY <2>8, <3>1
      <4> QED
        BY <2>6, <2>8, <3>1, <4>1
    <3>3. pc' \in {"map", "assign"}
      BY <2>1, <2>14
    <3>4. CutInv'
      BY <3>3 DEF CutInv, Clustering
    <3>5. SectionInv'
      BY <2>1, <2>4, <2>12, <3>2, <3>3 DEF SectionInv, Clustering, whole
    <3> QED
      BY <2>10, <2>11, <3>4, <3>5 DEF Made
  <2> QED
    BY <2>13, <2>14
<1> QED
  BY <1>1, <1>2

(* Every step keeps what is made. *)
LEMMA MadeStep ==
  ASSUME BInv, Next
  PROVE  Made'
<1>1. CASE Add
  BY <1>1, QuietMade DEF Add, Quiet
<1>2. CASE BuildWhole
  <2>1. /\ ~Spilling /\ batchSize' = batchSize /\ corpus' = corpus
        /\ section' = [i \in 1 .. Dim |-> EmptyList]
        /\ pc' = IF corpus = <<>> THEN "assign" ELSE "count"
        /\ UNCHANGED <<seed, counts, ends, begin, doc, ids, clustered>>
    BY <1>2 DEF BuildWhole, indexVars, windowVars
  <2>2. section' \in Seq(List)
    <3>1. EmptyList \in List
      BY DEF EmptyList, List
    <3> QED
      BY <2>1, <3>1, DimAssumption
  <2>3. BuildTypes'
    BY <2>1, <2>2 DEF BInv, TypeOK, BuildTypes
  <2>4. CutInv' /\ StagedInv'
    BY <2>1 DEF CutInv, StagedInv, Clustering
  <2>5. SectionInv'
    <3>1. CASE corpus = <<>>
      <4>1. PICK s \in Seeds : s \in Nat
        BY SeedsAssumption
      <4>2. Covered(corpus')
        BY <2>1, <3>1 DEF Covered
      <4>3. section' = WholeBuild(corpus', s)
        BY <2>1, <3>1, <4>1, WholeBuildOfNothing
      <4> QED
        BY <2>1, <3>1, <4>2, <4>3 DEF SectionInv, Clustering
    <3>2. CASE corpus # <<>>
      BY <2>1, <3>2 DEF SectionInv, Clustering, Spilling
    <3> QED
      BY <3>1, <3>2
  <2> QED
    BY <2>3, <2>4, <2>5 DEF Made
<1>3. CASE BuildRefused
  BY <1>3, QuietMade DEF BuildRefused, Quiet
<1>4. CASE BuildSpilling
  BY <1>4, QuietMade DEF BuildSpilling, Quiet
<1>5. CASE SpillFails
  BY <1>5, QuietMade DEF SpillFails, Throw, Quiet
<1>6. CASE CreateSpill
  <2>1. /\ pc = "create" /\ pc' = "count" /\ batchSize' = batchSize /\ section' = <<>>
        /\ UNCHANGED <<seed, counts, ends, begin, doc, ids, clustered>>
    BY <1>6 DEF CreateSpill, indexVars, windowVars
  <2>2. Spilling /\ Spilling'
    BY <2>1 DEF BInv, SpillInv, OwedInv, Spilling
  <2>3. BuildTypes'
    BY <2>1 DEF BInv, TypeOK, BuildTypes
  <2>4. CutInv' /\ StagedInv' /\ SectionInv'
    BY <2>1, <2>2 DEF CutInv, StagedInv, SectionInv, Clustering
  <2> QED
    BY <2>3, <2>4 DEF Made
<1>7. ASSUME pc \in {"map", "unlink"}, pc' \in {"unlink", "assign"},
             UNCHANGED <<indexVars, buildVars>>
      PROVE  Made'
  <2>1. corpus' = corpus /\ section' = section
    BY <1>7 DEF indexVars, buildVars
  <2>2. BuildTypes'
    BY <1>7, TypesSplit, SameBuildTypes DEF BInv
  <2>3. SectionInv'
    BY <1>7, <2>1 DEF BInv, SectionInv, Clustering
  <2>4. CutInv' /\ StagedInv'
    BY <1>7 DEF CutInv, StagedInv, Clustering
  <2> QED
    BY <2>2, <2>3, <2>4 DEF Made
<1>8. CASE MapSpill
  <2>1. CASE Throw
    BY <2>1, QuietMade DEF Throw, Quiet
  <2>2. CASE ~Throw
    BY <1>7, <1>8, <2>2 DEF MapSpill
  <2> QED
    BY <2>1, <2>2
<1>9. CASE Unlink
  BY <1>7, <1>9 DEF Unlink
<1>10. CASE Assign
  BY <1>10, QuietMade DEF Assign, Quiet
<1>11. CASE DestroyLists \/ DestroySpill
  BY <1>11, QuietMade DEF DestroyLists, DestroySpill, Quiet
<1>12. CASE Gone
  BY <1>12, QuietMade DEF Gone, vars, Quiet
<1>13. ASSUME NEW t \in Terms, ClusterList(t)
       PROVE  Made'
  BY <1>13, ClusterMade
<1>14. CASE CountPostings \/ OpenWindow \/ FillRow \/ SealWindow \/ LoopDone \/ Sink
  BY <1>14, CountMade, OpenMade, FillMade, SealMade, LoopDoneMade, SinkMade
<1> QED
  BY <1>1, <1>2, <1>3, <1>4, <1>5, <1>6, <1>8, <1>9, <1>10, <1>11, <1>12, <1>13, <1>14 DEF Next

(* A new index. *)
LEMMA InitBInv == Init => BInv
<1> SUFFICES ASSUME Init PROVE BInv
  OBVIOUS
<1>1. SpillInv
  BY InitSpillInv
<1>2. TypeOK
  <2>1. CallTypes
    BY DEF Init, CallTypes, None
  <2>2. BuildTypes
    <3>1. /\ seed = 0 /\ counts = <<>> /\ section = <<>> /\ ends = {} /\ begin = 0 /\ doc = 1
          /\ ids = <<>> /\ clustered = <<>>
      BY DEF Init
    <3>2. DOMAIN ids = {} /\ DOMAIN clustered = {}
      BY <3>1
    <3> QED
      BY <3>1, <3>2, DimAssumption DEF BuildTypes
  <2> QED
    BY <2>1, <2>2, TypesSplit
<1>3. SpillNamed /\ CutInv /\ StagedInv /\ SectionInv
  BY DEF Init, SpillNamed, CutInv, StagedInv, SectionInv, Clustering, Owed
<1> QED
  BY <1>1, <1>2, <1>3 DEF BInv

(* The invariant of what a build makes is inductive. *)
LEMMA NextBInv == BInv /\ [Next]_vars => BInv'
<1> SUFFICES ASSUME BInv, [Next]_vars PROVE BInv'
  OBVIOUS
<1>1. CASE Next
  <2>1. SpillInv'
    BY <1>1, NextStep DEF BInv
  <2>2. TypeOK'
    <3>1. CallTypes' /\ BuildTypes'
      BY <1>1, CallTypesStep, MadeStep DEF BInv, Made
    <3> QED
      BY <3>1 DEF TypeOK, CallTypes, BuildTypes
  <2>3. SpillNamed' /\ CutInv' /\ StagedInv' /\ SectionInv'
    BY <1>1, SpillNamedStep, MadeStep DEF Made
  <2> QED
    BY <2>1, <2>2, <2>3 DEF BInv
<1>2. CASE UNCHANGED vars
  <2>1. SpillInv'
    BY <1>2, NextStep DEF BInv
  <2>2. TypeOK'
    <3>1. UNCHANGED <<indexVars, spillVars, builds, outcome, pc, buildVars>>
      BY <1>2 DEF vars
    <3>2. CallTypes /\ BuildTypes
      BY TypesSplit DEF BInv
    <3>3. CallTypes'
      BY <3>1, <3>2 DEF CallTypes, indexVars, spillVars
    <3>4. BuildTypes'
      BY <3>1, <3>2, SameBuildTypes
    <3> QED
      BY <3>3, <3>4 DEF TypeOK, CallTypes, BuildTypes
  <2>3. SpillNamed'
    BY <1>2 DEF BInv, SpillNamed, Owed, Spilling, vars, indexVars, spillVars
  <2>4. CutInv'
    BY <1>2 DEF BInv, CutInv, Clustering, PostingCounts, vars, indexVars, buildVars, windowVars
  <2>5. StagedInv'
    BY <1>2 DEF BInv, StagedInv, Window, End, vars, indexVars, buildVars, windowVars
  <2>6. SectionInv'
    BY <1>2 DEF BInv, SectionInv, Clustering, Spilling, vars, indexVars, buildVars, windowVars
  <2> QED
    BY <2>1, <2>2, <2>3, <2>4, <2>5, <2>6 DEF BInv
<1> QED
  BY <1>1, <1>2

(* It holds of every run. *)
THEOREM BInvHolds == Spec => []BInv
BY InitBInv, NextBInv, PTL DEF Spec

(* The state of an index and of the build it runs stays well-typed: the     *)
(* lists are one per term, every place and id within its range.             *)
THEOREM TypesHold == Spec => []TypeOK
<1>1. BInv => TypeOK
  BY DEF BInv
<1> QED
  BY <1>1, BInvHolds, PTL

(* The checks of seismic_common.cpp and seismic_batched_build.cpp against a *)
(* corpus that grew, a window out of order and a short section never fire:  *)
(* a term's slots are never more than were counted, whatever the corpus,    *)
(* the cut and the order in which the threads cluster.                      *)
THEOREM NoCheckFires == Spec => []ChecksNeverFire
<1>1. BInv => ChecksNeverFire
  <2> SUFFICES ASSUME BInv PROVE ChecksNeverFire
    OBVIOUS
  <2>1. ASSUME pc = "fill", doc <= Len(corpus), NEW t \in Window \cap corpus[doc]
        PROVE  Len(ids[t]) < counts[t]
    <3>1. Len(corpus) \in Nat /\ doc \in 1 .. Len(corpus)
      BY <2>1 DEF BInv, TypeOK
    <3>2. ids[t] = Staged(corpus, t)[doc - 1]
      BY <2>1 DEF BInv, StagedInv
    <3>3. counts[t] = Len(Staged(corpus, t)[Len(corpus)])
      <4>1. Clustering
        BY <2>1 DEF Clustering
      <4>2. t \in Terms
        BY <4>1, WindowTerms
      <4> QED
        BY <4>1, <4>2 DEF BInv, CutInv, PostingCounts, Postings
    <3>4. /\ Staged(corpus, t)[doc - 1] \in Seq(Nat)
          /\ Staged(corpus, t)[doc] \in Seq(Nat)
          /\ Staged(corpus, t)[Len(corpus)] \in Seq(Nat)
      BY <3>1, StagedType
    <3>5. Len(Staged(corpus, t)[doc - 1]) < Len(Staged(corpus, t)[doc])
      BY <2>1, <3>1, <3>4, StagedNext
    <3>6. Len(Staged(corpus, t)[doc]) <= Len(Staged(corpus, t)[Len(corpus)])
      BY <3>1, StagedGrows
    <3> QED
      BY <3>2, <3>3, <3>4, <3>5, <3>6
  <2>2. pc = "sink" /\ Spilling => begin = Len(section)
    BY DEF BInv, SectionInv, Clustering
  <2>3. pc = "map" => Len(section) = Dim
    <3>1. ASSUME NEW s \in Seeds, section = WholeBuild(corpus, s)
          PROVE  Len(section) = Dim
      BY <3>1, DimAssumption DEF WholeBuild
    <3> QED
      BY <3>1 DEF BInv, SectionInv
  <2> QED
    BY <2>1, <2>2, <2>3 DEF ChecksNeverFire
<1> QED
  BY <1>1, BInvHolds, PTL

(* The abstract build's lists are these. *)
LEMMA WholesAgree ==
  ASSUME NEW c, NEW s
  PROVE  Whole!WholeBuild(c, s) = WholeBuild(c, s)
<1>1. \A t : Whole!Staged(c, t) = Staged(c, t)
  BY DEF Staged, Whole!Staged, Read, Whole!Read
<1>2. \A t : Whole!Postings(c, t) = Postings(c, t)
  BY <1>1 DEF Postings, Whole!Postings
<1>3. \A d, b, n : Whole!ListOf(d, b, n) = ListOf(d, b, n)
  BY DEF ListOf, Whole!ListOf, EmptyList, Whole!EmptyList
<1> QED
  BY <1>2, <1>3 DEF WholeBuild, Whole!WholeBuild

(* "byte-for-byte what a whole-corpus build would have produced"            *)
(* (seismic_batched_build.h:96-97): whatever windows the terms are cut      *)
(* into, whichever thread clusters which list when, and whatever step on    *)
(* the spill fails, the batched build implements the whole-corpus build of  *)
(* module SeismicBuild, which takes one step or none.                       *)
THEOREM BuildIsWhole == Spec => ImplementsWholeBuild
<1>1. Init => Whole!Init
  BY DEF Init, Whole!Init
<1>2. BInv /\ [Next]_vars => [Whole!Next]_<<corpus, lists>>
  <2> SUFFICES ASSUME BInv, [Next]_vars, ~UNCHANGED <<corpus, lists>>
               PROVE  Whole!Next
    OBVIOUS
  <2>1. CASE Add
    BY <2>1 DEF Add, Whole!Next, Whole!Add
  <2>2. CASE Assign
    <3>1. PICK s \in Seeds : section = WholeBuild(corpus, s)
      BY <2>2 DEF Assign, BInv, SectionInv
    <3>2. Covered(corpus) /\ lists' = WholeBuild(corpus, s) /\ corpus' = corpus
      BY <2>2, <3>1 DEF Assign, BInv, SectionInv
    <3> QED
      BY <3>2, WholesAgree DEF Whole!Next, Whole!Build, Covered, Whole!Covered, Terms, Whole!Terms
  <2>3. CASE DestroyLists
    BY <2>3 DEF DestroyLists, Whole!Next, Whole!Destroy
  <2>4. CASE BuildWhole \/ BuildRefused \/ BuildSpilling \/ SpillFails \/ CreateSpill
    BY <2>4 DEF BuildWhole, BuildRefused, BuildSpilling, SpillFails, Throw, CreateSpill, indexVars
  <2>5. CASE CountPostings \/ FillRow
    <3>1. CASE Throw
      BY <3>1 DEF Throw, indexVars
    <3>2. CASE ~Throw
      <4>1. UNCHANGED indexVars
        BY <2>5, <3>2 DEF CountPostings, CountAndCut, FillRow
      <4> QED
        BY <4>1 DEF indexVars
    <3> QED
      BY <3>1, <3>2
  <2>6. CASE \E t \in Terms : ClusterList(t)
    BY <2>6 DEF ClusterList, indexVars
  <2>7. CASE OpenWindow \/ SealWindow \/ LoopDone \/ Sink
    BY <2>7 DEF OpenWindow, SealWindow, LoopDone, Sink, Throw, indexVars
  <2>8. CASE MapSpill \/ Unlink \/ DestroySpill
    BY <2>8 DEF MapSpill, Unlink, DestroySpill, Throw, indexVars
  <2>9. CASE UNCHANGED vars
    BY <2>9 DEF vars, indexVars
  <2> QED
    BY <2>1, <2>2, <2>3, <2>4, <2>5, <2>6, <2>7, <2>8, <2>9 DEF Next, Gone
<1> QED
  BY <1>1, <1>2, BInvHolds, PTL DEF Spec, ImplementsWholeBuild, Whole!Spec
-----------------------------------------------------------------------------
(* A build with make_windows in it. *)

(* A call of make_windows by a build is one for its index, and the build    *)
(* waits for it.                                                            *)
CalledInv == ~alone => pc = "count" /\ Covered(corpus) /\ dim = Dim /\ batches = Windows

PlannedInv ==
  /\ lambda \in Nat
  /\ \/ ~alone /\ NoPlan
     \/ PlanInv /\ EvenInv /\ CalledInv

(* A window is two places in the term space.                                *)
LEMMA SpanParts ==
  ASSUME NEW ws \in Seq(Span), NEW i \in 1 .. Len(ws)
  PROVE  ws[i].begin \in Nat /\ ws[i].end \in Nat
<1>1. ws[i] \in Span
  OBVIOUS
<1> QED
  BY <1>1 DEF Span

(* The windows of a run end at different terms, in ascending order.         *)
LEMMA EndsAscend ==
  ASSUME NEW ws \in Seq(Span), Run(ws)
  PROVE  \A i, j \in 1 .. Len(ws) : i < j => ws[i].end < ws[j].end
<1>1. Len(ws) \in Nat /\ \A i \in 1 .. Len(ws) : ws[i].begin \in Nat /\ ws[i].end \in Nat
  BY SpanParts
<1>2. SUFFICES ASSUME NEW i \in 1 .. Len(ws)
               PROVE  \A j \in 1 .. Len(ws) : i < j => ws[i].end < ws[j].end
  OBVIOUS
<1> DEFINE S == {n \in Nat : n \in 1 .. Len(ws) /\ i < n => ws[i].end < ws[n].end}
<1>3. 0 \in S
  OBVIOUS
<1>4. ASSUME NEW n \in Nat, n \in S
      PROVE  n + 1 \in S
  <2>1. SUFFICES ASSUME n + 1 \in 1 .. Len(ws), i < n + 1
                 PROVE  ws[i].end < ws[n + 1].end
    OBVIOUS
  <2>2. n \in 1 .. Len(ws) /\ n \in 1 .. Len(ws) - 1
    BY <1>1, <2>1
  <2>3. ws[n].end < ws[n + 1].end
    <3>1. ws[n].end = ws[n + 1].begin /\ ws[n + 1].begin < ws[n + 1].end
      BY <2>1, <2>2 DEF Run
    <3> QED
      BY <3>1
  <2>4. i = n \/ ws[i].end < ws[n].end
    BY <1>4, <2>1, <2>2
  <2> QED
    BY <1>1, <2>1, <2>2, <2>3, <2>4
<1>5. \A n \in Nat : n \in S
  <2> HIDE DEF S
  <2> QED
    BY <1>3, <1>4, NatSetInduction
<1> QED
  BY <1>5

(* What make_windows returns is one of the cuts a build may be given.       *)
LEMMA PlanIsACut ==
  ASSUME PlanInv, stage = "done", dim = Dim, batches = Windows
  PROVE  Plan \in Cuts
<1>1. /\ windows \in Seq(Span) /\ Run(windows) /\ Len(windows) = Windows
      /\ windows # <<>> => windows[Len(windows)].end = Dim
      /\ windows = <<>> => Dim = 0
  BY DEF PlanInv, PlanTypeOK, Partition, Contiguous
<1>2. windows # <<>> /\ Len(windows) \in Nat \ {0} /\ Dim \in Nat
  BY <1>1, DimAssumption
<1>3. \A i \in 1 .. Len(windows) :
        windows[i].begin \in Nat /\ windows[i].end \in Nat /\ windows[i].begin < windows[i].end
  BY <1>1, SpanParts DEF Run
<1>4. DOMAIN windows = 1 .. Len(windows)
  BY <1>1
<1>5. Dim \in Plan
  <2>1. Len(windows) \in DOMAIN windows
    BY <1>2, <1>4
  <2> QED
    BY <1>1, <1>2, <2>1 DEF Plan
<1>6. Plan \subseteq 1 .. Dim
  <2>1. ASSUME NEW i \in DOMAIN windows
        PROVE  windows[i].end \in 1 .. Dim
    <3>1. i \in 1 .. Len(windows) /\ Len(windows) \in 1 .. Len(windows)
      BY <1>2, <1>4
    <3>2. i = Len(windows) \/ windows[i].end < windows[Len(windows)].end
      <4>1. i = Len(windows) \/ i < Len(windows)
        BY <3>1
      <4> QED
        BY <1>1, <3>1, <4>1, EndsAscend
    <3> QED
      BY <1>1, <1>2, <1>3, <3>1, <3>2
  <2> QED
    BY <2>1 DEF Plan
<1>7. Cardinality(Plan) = Windows
  <2> DEFINE f == [i \in 1 .. Len(windows) |-> windows[i].end]
  <2>1. f \in Bijection(1 .. Len(windows), Plan)
    <3>1. f \in [1 .. Len(windows) -> Plan] /\ \A e \in Plan : \E i \in 1 .. Len(windows) : f[i] = e
      BY <1>4 DEF Plan
    <3>2. ASSUME NEW i \in 1 .. Len(windows), NEW j \in 1 .. Len(windows), f[i] = f[j]
          PROVE  i = j
      <4>0. windows[i].end = windows[j].end
        BY <3>2
      <4>1. \A a, b \in 1 .. Len(windows) : a < b => windows[a].end < windows[b].end
        BY <1>1, EndsAscend
      <4>2. i < j \/ j < i \/ i = j
        BY <1>2
      <4>3. windows[i].end = windows[j].end /\ windows[i].end \in Nat
        BY <1>3, <4>0
      <4> QED
        BY <4>1, <4>2, <4>3
    <3> HIDE DEF f
    <3>3. f \in Injection(1 .. Len(windows), Plan)
      BY <3>1, <3>2 DEF Injection, IsInjective
    <3>4. f \in Surjection(1 .. Len(windows), Plan)
      BY <3>1 DEF Surjection
    <3> QED
      BY <3>3, <3>4 DEF Bijection
  <2>2. IsFiniteSet(1 .. Len(windows)) /\ Cardinality(1 .. Len(windows)) = Len(windows)
    BY <1>2, FS_Interval
  <2>3. ExistsBijection(1 .. Len(windows), Plan)
    BY <2>1 DEF ExistsBijection
  <2> HIDE DEF f
  <2> QED
    BY <1>1, <2>2, <2>3, FS_Bijection
<1> QED
  BY <1>5, <1>6, <1>7 DEF Cuts

(* A step of the composition is a step of the build, or none of it.         *)
LEMMA PlannedStep ==
  ASSUME PlannedInv, [PlannedNext]_plannedVars
  PROVE  [Next]_vars
<1>1. CASE BuildStep
  BY <1>1 DEF BuildStep, Next
<1>2. CASE CallMakeWindows \/ PlanStep
  BY <1>2 DEF CallMakeWindows, PlanStep
<1>3. CASE UsePlan
  <2>1. PlanInv /\ CalledInv /\ stage = "done" /\ ~alone
    BY <1>3 DEF UsePlan, PlannedInv, NoPlan
  <2>2. Plan \in Cuts
    BY <2>1, PlanIsACut DEF CalledInv
  <2>3. CountAndCut(Cuts)
    BY <1>3, <2>2 DEF UsePlan, CountAndCut
  <2> QED
    BY <2>3 DEF Next, CountPostings
<1>4. CASE UNCHANGED plannedVars
  BY <1>4 DEF plannedVars
<1> QED
  BY <1>1, <1>2, <1>3, <1>4 DEF PlannedNext

(* A call starts with what the postings were counted to be, and at most one *)
(* window for each term.                                                    *)
LEMMA CallPlanInv ==
  ASSUME PlannedInv, BInv, CallMakeWindows
  PROVE  (PlanInv /\ EvenInv /\ CalledInv)'
<1>1. /\ ~alone /\ stage = "idle" /\ pc = "count" /\ Covered(corpus)
      /\ dim' = Dim /\ term_counts' = PostingCounts
      /\ batches' = EffectiveBatches(batchSize, Dim) /\ stage' = "tally"
      /\ UNCHANGED <<lambda, prefix, remaining, windows, from, end, load, target, vars, alone>>
  BY DEF CallMakeWindows
<1>2. NoPlan /\ lambda \in Nat
  BY <1>1 DEF PlannedInv, PlanInv, PlanTypeOK
<1>3. Dim \in Nat \ {0} /\ batchSize \in Nat \ {0} /\ corpus \in Seq(Rows)
  BY DimAssumption, BatchSizesAssumption DEF BInv, TypeOK
<1>4. batches' = Windows /\ Windows \in Nat /\ Windows <= Dim /\ Windows >= 1
  BY <1>1, <1>3 DEF EffectiveBatches, Least, Greatest, Windows
<1>5. PostingCounts \in [0 .. Dim - 1 -> Nat]
  <2>1. ASSUME NEW t \in Terms
        PROVE  Len(Postings(corpus, t)) \in Nat
    <3>1. Len(corpus) \in Nat /\ Len(corpus) \in 0 .. Len(corpus)
      BY <1>3
    <3>2. Staged(corpus, t)[Len(corpus)] \in Seq(Nat)
      BY <3>1, StagedType
    <3> QED
      BY <3>2 DEF Postings
  <2> QED
    BY <2>1 DEF PostingCounts, Terms
<1>6. /\ prefix' = <<0>> /\ remaining' = 0 /\ windows' = <<>> /\ from' = 0 /\ end' = 0
      /\ load' = 0 /\ target' = 0 /\ lambda' \in Nat
  BY <1>1, <1>2 DEF NoPlan
<1>7. PlanTypeOK'
  BY <1>1, <1>3, <1>4, <1>5, <1>6 DEF PlanTypeOK
<1>8. BatchesInv' /\ PrefixInv'
  BY <1>1, <1>3, <1>4, <1>6 DEF BatchesInv, PrefixInv
<1>9. TallyInv' /\ CursorInv' /\ FillInv' /\ Partition' /\ EvenInv'
  BY <1>1, <1>6 DEF TallyInv, CursorInv, FillInv, Partition, EvenInv
<1>10. CalledInv'
  BY <1>1, <1>4 DEF CalledInv, vars, indexVars, Windows
<1> QED
  BY <1>7, <1>8, <1>9, <1>10 DEF PlanInv

(* make_windows keeps its arguments, and does nothing where it is not       *)
(* called.                                                                  *)
LEMMA RunPlanInv ==
  ASSUME PlannedInv, PlanStep
  PROVE  (PlanInv /\ EvenInv /\ CalledInv)'
<1>1. PlanNext /\ UNCHANGED <<vars, alone>>
  BY DEF PlanStep
<1>2. stage # "idle" /\ UNCHANGED <<dim, batches>>
  BY <1>1 DEF PlanNext, Tally, TallyDone, TakeRest, AimWindow, TakeTerm, CloseWindow,
              LoopExit, Terminated, planVars, inputs
<1>3. PlanInv /\ EvenInv /\ CalledInv
  BY <1>2 DEF PlannedInv, NoPlan
<1>4. PlanInv' /\ EvenInv'
  BY <1>1, <1>3, NextPlanInv, NextEvenInv
<1>5. CalledInv'
  BY <1>1, <1>2, <1>3 DEF CalledInv, vars, indexVars, Windows
<1> QED
  BY <1>4, <1>5

(* Both invariants are those of the composition.                            *)
LEMMA NextPlannedInv == PlannedInv /\ BInv /\ [PlannedNext]_plannedVars => PlannedInv' /\ BInv'
<1> SUFFICES ASSUME PlannedInv, BInv, [PlannedNext]_plannedVars PROVE PlannedInv' /\ BInv'
  OBVIOUS
<1>1. BInv'
  BY PlannedStep, NextBInv
<1>2. CASE BuildStep
  <2>1. ~alone /\ stage = "idle" /\ UNCHANGED <<planVars, alone>>
    BY <1>2 DEF BuildStep
  <2>2. NoPlan /\ lambda \in Nat
    BY <2>1 DEF PlannedInv, PlanInv, PlanTypeOK
  <2> QED
    BY <1>1, <2>1, <2>2 DEF PlannedInv, NoPlan, planVars
<1>3. CASE CallMakeWindows
  <2>1. (PlanInv /\ EvenInv /\ CalledInv)'
    BY <1>3, CallPlanInv
  <2>2. lambda' \in Nat
    BY <2>1 DEF PlanInv, PlanTypeOK
  <2> QED
    BY <1>1, <2>1, <2>2 DEF PlannedInv
<1>4. CASE PlanStep
  <2>1. (PlanInv /\ EvenInv /\ CalledInv)'
    BY <1>4, RunPlanInv
  <2>2. lambda' \in Nat
    BY <2>1 DEF PlanInv, PlanTypeOK
  <2> QED
    BY <1>1, <2>1, <2>2 DEF PlannedInv
<1>5. CASE UsePlan
  <2>1. NoPlan' /\ ~alone' /\ lambda' \in Nat
    BY <1>5 DEF UsePlan, NoPlan, PlannedInv
  <2> QED
    BY <1>1, <2>1 DEF PlannedInv
<1>6. CASE UNCHANGED plannedVars
  <2>1. UNCHANGED planVars /\ UNCHANGED vars /\ alone' = alone
    BY <1>6 DEF plannedVars
  <2>2. PlanInv /\ EvenInv => PlanInv' /\ EvenInv'
    BY <2>1, NextPlanInv, NextEvenInv
  <2>3. CalledInv => CalledInv'
    BY <2>1 DEF CalledInv, vars, indexVars, planVars, Windows
  <2>4. NoPlan => NoPlan'
    BY <2>1 DEF NoPlan, planVars
  <2>5. lambda' = lambda
    BY <2>1 DEF planVars
  <2> QED
    BY <1>1, <2>1, <2>2, <2>3, <2>4, <2>5 DEF PlannedInv
<1> QED
  BY <1>2, <1>3, <1>4, <1>5, <1>6 DEF PlannedNext

(* Whether or not an index is there, make_windows starts well.              *)
LEMMA InitPlannedInv == PlannedInit => PlannedInv /\ BInv
<1> SUFFICES ASSUME PlannedInit PROVE PlannedInv /\ BInv
  OBVIOUS
<1>1. BInv
  BY InitBInv DEF PlannedInit
<1>2. CASE alone = TRUE /\ PlanInit
  <2>1. PlanInv /\ EvenInv
    BY <1>2, InitPlanInv, InitEvenInv
  <2>2. lambda \in Nat /\ CalledInv
    BY <1>2, <2>1 DEF PlanInv, PlanTypeOK, CalledInv
  <2> QED
    BY <1>1, <2>1, <2>2 DEF PlannedInv
<1>3. CASE alone = FALSE /\ NoPlan /\ lambda \in Lambdas
  BY <1>1, <1>3, LambdasAssumption DEF PlannedInv
<1> QED
  BY <1>2, <1>3 DEF PlannedInit

(* A build whose windows are cut by make_windows is a build: it behaves as  *)
(* BatchedBuild does with the cut of its choice.                            *)
THEOREM PlannedIsBatched == PlannedSpec => Spec
<1>1. PlannedInit => Init
  BY DEF PlannedInit
<1>2. PlannedInv /\ [PlannedNext]_plannedVars => [Next]_vars
  BY PlannedStep
<1> QED
  BY <1>1, <1>2, InitPlannedInv, NextPlannedInv, PTL DEF PlannedSpec, Spec

(* So what holds of BatchedBuild holds of it: its types, its spill, its     *)
(* checks and the lists it makes.                                           *)
THEOREM PlannedBuildHolds ==
  PlannedSpec => [](TypeOK /\ NothingStranded /\ ReadableUnlessThrew /\ ChecksNeverFire)
BY PlannedIsBatched, TypesHold, SpillsAreOwned, ListsStayReadable, NoCheckFires, PTL

(* And it is the whole-corpus build of SeismicBuild, windows and all.       *)
THEOREM PlannedBuildIsWhole == PlannedSpec => ImplementsWholeBuild
BY PlannedIsBatched, BuildIsWhole

(* And what holds of make_windows holds of it, called by a build for the    *)
(* postings of its corpus.                                                  *)
THEOREM PlannedWindowsHold == PlannedSpec => [](Partition /\ NoUnderflow /\ Balanced)
<1>1. PlannedInv => Partition /\ NoUnderflow /\ Balanced
  <2>1. NoPlan => Partition /\ NoUnderflow /\ Balanced
    BY DEF NoPlan, Partition, NoUnderflow, Balanced
  <2>2. PlanInv => Partition
    BY DEF PlanInv
  <2> QED
    BY <2>1, <2>2, PlanIsUnsigned, EvenIsBalanced DEF PlannedInv
<1> QED
  BY <1>1, InitPlannedInv, NextPlannedInv, PTL DEF PlannedSpec
=============================================================================
