---------------------------- MODULE MCIdMapIndex ----------------------------
(***************************************************************************)
(* Three documents: enough for two batches and a rebuild.  The names are   *)
(* 0, which is also what resize() fills with, and two others.              *)
(***************************************************************************)
EXTENDS IdMapIndex

MCIds == {0, 5, 7}
=============================================================================
