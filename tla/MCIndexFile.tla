---------------------------- MODULE MCIndexFile ----------------------------
(***************************************************************************)
(* Every type of index; counts that leave the next item off its boundary   *)
(* (odd terms, bytes of width 1 and 2, an id map of odd length), empty     *)
(* lists, an empty index, a delegate, and files of another version.        *)
(***************************************************************************)
EXTENDS IndexFile

List(docs, clusters, terms, nnz) == [docs |-> docs, clusters |-> clusters, terms |-> terms, nnz |-> nnz]

MCLists == {<<>>, <<List(0, 0, 0, 0), List(3, 2, 1, 3)>>, <<List(2, 1, 2, 2), List(1, 1, 0, 0)>>}

Inverted == {[id |-> "INVT", version |-> v, dim |-> 2, rows |-> 2, sizes |-> s] :
               v \in {1, 2}, s \in {<<>>, <<1, 0>>, <<0, 2>>}}

Clustered(id, widths) ==
  {[id |-> id, version |-> 1, dim |-> 3, rows |-> 2, nnz |-> 3, width |-> w, lists |-> ls] :
     w \in widths, ls \in MCLists}
    \union {[id |-> id, version |-> 1, dim |-> 3, rows |-> 0, nnz |-> 0, width |-> w, lists |-> <<>>] :
              w \in widths}

Disk(id, widths) ==
  {[id |-> id, version |-> 1, dim |-> 3, rows |-> 3, left |-> n, nnz |-> n, width |-> w,
    lists |-> ls, section |-> 48] : w \in widths, n \in {0, 1}, ls \in MCLists}

Quantized(ixs) == {[vmin |-> 1, vmax |-> 3] @@ ix : ix \in ixs}

Flat == Inverted \union Clustered("SEIS", {4}) \union Quantized(Clustered("SESQ", {1, 2}))
          \union Disk("DSEI", {4}) \union Quantized(Disk("DSSQ", {1, 2}))

Mapped == {[id |-> "IDMP", version |-> 1, dim |-> 3, ids |-> n, delegate |-> d] :
             n \in {0, 3}, d \in {x \in Flat : x.id \in {"INVT", "SEIS", "SESQ", "DSEI"} /\ x.rows # 0}}

Brutal == [id |-> "BRUT", version |-> 1, dim |-> 3]

MCIndexes == Flat \union Mapped \union {Brutal}
=============================================================================
