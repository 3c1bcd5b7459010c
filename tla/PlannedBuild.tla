---------------------------- MODULE PlannedBuild ----------------------------
(***************************************************************************)
(* A build with the windows make_windows really cuts for its corpus        *)
(* (for_each_clustered_window, nsparse/seismic_common.cpp): BatchedBuild,  *)
(* whose counting step waits while TermWindows runs on the counts of the   *)
(* index's own postings.  Beside an index's builds, make_windows is called *)
(* by itself, over every input of TermWindows.                             *)
(***************************************************************************)
EXTENDS BatchedBuild, TermWindows

VARIABLE alone  \* is make_windows called by itself, and no index there?

plannedVars == <<vars, planVars, alone>>

(* No call of make_windows is running. *)
NoPlan ==
  /\ stage = "idle"
  /\ dim = 0 /\ term_counts = <<>> /\ batches = 0
  /\ prefix = <<0>> /\ remaining = 0 /\ windows = <<>>
  /\ from = 0 /\ end = 0 /\ load = 0 /\ target = 0

Plan == {windows[i].end : i \in DOMAIN windows}
-----------------------------------------------------------------------------
PlannedInit ==
  /\ Init
  /\ \/ alone = TRUE /\ PlanInit
     \/ alone = FALSE /\ NoPlan /\ lambda \in Lambdas

(* Everything but the counting of a corpus that passes it. *)
BuildStep ==
  /\ ~alone /\ stage = "idle"
  /\ \/ Add \/ BuildWhole \/ BuildRefused \/ BuildSpilling
     \/ SpillFails \/ CreateSpill
     \/ ~Covered(corpus) /\ CountPostings
     \/ OpenWindow \/ FillRow \/ SealWindow
     \/ \E t \in Terms : ClusterList(t)
     \/ LoopDone \/ Sink \/ MapSpill \/ Unlink \/ Assign
     \/ DestroyLists \/ DestroySpill \/ Gone
  /\ UNCHANGED <<planVars, alone>>

(* make_windows is called with what was counted and clamped. *)
CallMakeWindows ==
  /\ ~alone /\ stage = "idle"
  /\ pc = "count" /\ Covered(corpus)
  /\ dim' = Dim
  /\ term_counts' = PostingCounts
  /\ batches' = EffectiveBatches(batchSize, Dim)
  /\ stage' = "tally"
  /\ UNCHANGED <<lambda, prefix, remaining, windows, from, end, load, target, vars, alone>>

PlanStep == PlanNext /\ UNCHANGED <<vars, alone>>

(* make_windows returns, and the loop over its windows begins. *)
UsePlan ==
  /\ ~alone /\ stage = "done"
  /\ CountAndCut({Plan})
  /\ stage' = "idle"
  /\ dim' = 0 /\ term_counts' = <<>> /\ batches' = 0
  /\ prefix' = <<0>> /\ remaining' = 0 /\ windows' = <<>>
  /\ from' = 0 /\ end' = 0 /\ load' = 0 /\ target' = 0
  /\ UNCHANGED <<lambda, alone>>

PlannedNext == BuildStep \/ CallMakeWindows \/ PlanStep \/ UsePlan

PlannedSpec == PlannedInit /\ [][PlannedNext]_plannedVars
=============================================================================
