------------------------- MODULE MCDiskSeismicIndex -------------------------
(***************************************************************************)
(* Two lists of up to two blocks and three documents: a document may be in *)
(* both lists, in one, or in none, and an index may get another document   *)
(* after a build, a save or a load.                                        *)
(***************************************************************************)
EXTENDS DiskSeismicIndex
=============================================================================
