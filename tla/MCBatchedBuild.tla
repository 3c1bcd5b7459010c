--------------------------- MODULE MCBatchedBuild ---------------------------
(***************************************************************************)
(* Three terms in one, two or three windows; rows that leave terms without *)
(* postings, share terms across windows, and one with a term the dimension *)
(* does not cover; three builds, so that a build can fail between two that *)
(* do not.                                                                 *)
(***************************************************************************)
EXTENDS BatchedBuild

MCRows == {{0}, {0, 2}, {1, 2}, {1, 3}}
MCSeeds == {10, 20}
MCBatchSizes == {1, 2, 4}

(* The builds of a platform that unlinks a file while it is mapped, so that *)
(* path_ owes nothing once a build has returned.                            *)
UnlinkingInit == Init /\ unlinks = TRUE
UnlinkingSpec == UnlinkingInit /\ [][Next]_vars
=============================================================================
