--------------------------- MODULE MCHuffmanCode ---------------------------
(***************************************************************************)
(* Sequences of up to three bytes, some with long codewords and some whose *)
(* bits look like those of others.                                         *)
(***************************************************************************)
EXTENDS HuffmanCode

SmallSources == UNION {[1 .. k -> {0, 4, 85, 252, 255}] : k \in 0 .. 3}
=============================================================================
