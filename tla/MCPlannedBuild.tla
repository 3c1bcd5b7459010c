-------------------------- MODULE MCPlannedBuild --------------------------
(***************************************************************************)
(* An index with three terms in one, two or three windows; rows that leave *)
(* terms without postings, share terms across windows, and one with a term *)
(* the dimension does not cover; three builds, so that a build can fail    *)
(* between two that do not.  By itself, make_windows is called for every   *)
(* dimension up to 5, every combination of four posting counts (none and   *)
(* some on either side of lambda), and batch sizes from 0, which means 1,  *)
(* to one past the dimension.                                              *)
(***************************************************************************)
EXTENDS PlannedBuild

MCRows == {{0}, {0, 2}, {1, 2}, {1, 3}}
MCSeeds == {10, 20}
MCBatchSizes == {1, 2, 4}
MCDims == 0 .. 5
MCCounts == {0, 1, 2, 5}
MCLambdas == {1, 3}
MCAskedSizes == 0 .. 6
=============================================================================
