-------------------------- MODULE MCInlineForward --------------------------
(***************************************************************************)
(* Three posting lists of up to two blocks -- any of them may be without   *)
(* blocks -- of up to two of three documents, in sections that start at    *)
(* an aligned and at two unaligned positions.  One document is too large   *)
(* for a block that also holds another.                                    *)
(***************************************************************************)
EXTENDS InlineForward

MCNnz == <<2, 0, 3>>

MCBlocks == {<<>>, <<0>>, <<1, 2>>}
MCFirst == {<<>>} \union {<<b>> : b \in MCBlocks} \union {<<b, c>> : b, c \in MCBlocks}
MCInputs ==
  {<<f, <<>>, g>> : f, g \in MCFirst} \union {<<f, g>> : f \in MCFirst, g \in {<<>>, <<<<0, 2>>>>, <<<<2>>>>}}
MCPages == {Packed, 16, 32, 64}
=============================================================================
