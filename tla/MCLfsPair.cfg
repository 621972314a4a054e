\* Blocks of three units, and revisions that wrap after four.
CONSTANTS
  Value = {a, b, c}
  None = None
  BlockUnits = 3
  CommitUnits = {1, 2}
  Revisions = 4
SPECIFICATION PairSpec
INVARIANTS PairTypeOK AlwaysMountable DirTrue
PROPERTIES ImplementsStore
SYMMETRY Symmetry
