--------------------------- MODULE MCKosaStorage ---------------------------
(* Three plumes: a vector that moves twice, and two entries to shift.      *)
EXTENDS KosaStorage, TLC

CONSTANTS kosa1, kosa2, kosa3, base1, base2, base3

Kosas == {kosa1, kosa2, kosa3}
Loaded == {base1, base2, base3}

Symmetry == Permutations(Kosas) \cup Permutations(Loaded)
=============================================================================
