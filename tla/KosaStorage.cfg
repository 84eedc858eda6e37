SPECIFICATION Spec
CONSTANTS
  kosa1 = kosa1
  kosa2 = kosa2
  kosa3 = kosa3
  base1 = base1
  base2 = base2
  base3 = base3
  Nothing = Nothing
  Plumes <- Kosas
  Bases <- Loaded
  MaxItems = 3
  MaxBlocks = 3
SYMMETRY Symmetry
INVARIANTS TypeOK FirstIsInPlace NoneReadsAnother BasesAreOwned
