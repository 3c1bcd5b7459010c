---------------------------- MODULE SeismicBuild ----------------------------
(***************************************************************************)
(* What build() promises, whatever the batch options                       *)
(* (nsparse/seismic_batched_build.h:76-77, :95-98; seismic_common.h:       *)
(* 183-185): the lists of an index are those a whole-corpus build of its   *)
(* corpus would have produced, from one base seed, and they change in one  *)
(* step or not at all.  A build that throws changes nothing here.          *)
(***************************************************************************)
EXTENDS ClusteredLists

VARIABLES corpus, lists

Init == corpus = <<>> /\ lists = Unbuilt

Add == /\ \E row \in Rows : corpus' = Append(corpus, row)
       /\ UNCHANGED lists

Build == /\ Covered(corpus)
         /\ \E s \in Seeds : lists' = WholeBuild(corpus, s)
         /\ UNCHANGED corpus

Destroy == lists' = Unbuilt /\ UNCHANGED corpus

Next == Add \/ Build \/ Destroy

Spec == Init /\ [][Next]_<<corpus, lists>>
=============================================================================
