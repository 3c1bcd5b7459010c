----------------------------- MODULE MCGpuBuild -----------------------------
(* Two builds of one process, of corpora that share a shape, an address, a  *)
(* width, or none of them, by two threads.                                  *)
EXTENDS GpuBuild

CONSTANTS t1, t2, here, there

MCThreads   == {t1, t2}
MCAddresses == {here, there}

Floats  == << 0 :> 1 @@ 1 :> 2, 0 :> 1, 0 :> 2 >>
Others  == << 0 :> 1, 0 :> 3, 0 :> 2 @@ 1 :> 1 >>
Bigger  == << 1 :> 1, 0 :> 1 @@ 1 :> 1, 0 :> 1 @@ 1 :> 2 >>
Smaller == << 0 :> 1 @@ 1 :> 2, 1 :> 3 >>

MCCorpora ==
  {[rows |-> Floats, element_size |-> U32], [rows |-> Others, element_size |-> U32],
   [rows |-> Others, element_size |-> U8], [rows |-> Smaller, element_size |-> U16],
   [rows |-> Bigger, element_size |-> U32]}

MCParam == [lambda |-> 0, beta |-> 2, alpha |-> [num |-> 1, den |-> 2]]
MCMishaps == {"upload", "context", "alloc", "launch"}
MCRegrow  == {"regrow"}
Symmetric == Permutations(MCThreads) \union Permutations(MCAddresses)
=============================================================================
