--------------------------- MODULE MCNativeCorpus ---------------------------
(***************************************************************************)
(* Corpora of an even and an odd number of entries (the values of the      *)
(* second need padding), of empty rows, and one that fails each check: a   *)
(* header, a size, the ends, the sign and the order of the offsets, a term *)
(* below 0, past its column, past the native width, and columns past the   *)
(* index's dimension.                                                      *)
(***************************************************************************)
EXTENDS NativeCorpus

Matrix(cols, indptr, indices) ==
  [rows |-> Len(indptr) - 1, cols |-> cols, nnz |-> Len(indices),
   indptr |-> indptr, indices |-> indices,
   values |-> [i \in DOMAIN indices |-> cols * 10 + i],
   size |-> interchange_file_size(Len(indptr) - 1, Len(indices))]

MCInputs ==
  {Matrix(2, <<0, 2>>, <<0, 1>>),
   Matrix(3, <<0, 1, 3>>, <<2, 0, 1>>),
   Matrix(1, <<0, 0, 1>>, <<0>>),
   Matrix(1, <<0, 0>>, <<>>),
   [Matrix(2, <<0, 2>>, <<0, 1>>) EXCEPT !.rows = 0],
   [Matrix(2, <<0, 2>>, <<0, 1>>) EXCEPT !.size = @ - 4],
   Matrix(2, <<1, 2>>, <<0, 1>>),
   Matrix(2, <<0, 1>>, <<0, 1>>),
   Matrix(2, <<0, -1, 1>>, <<0>>),
   Matrix(2, <<0, 3, 2>>, <<0, 1>>),
   Matrix(2, <<0, 2>>, <<0, -1>>),
   Matrix(2, <<0, 3>>, <<0, 1, 3>>),
   Matrix(5, <<0, 1>>, <<4>>),
   Matrix(4, <<0, 1>>, <<3>>)}
=============================================================================
