CONSTANTS
  Threads = {t1, t2}
  Blocks = {1, 2}
  MaxGen = 3
  NoSnapshot = NoSnapshot
  NoBlock = NoBlock
  MaxFailures = 1
SPECIFICATION Spec
CONSTRAINT GenerationBound
SYMMETRY Symmetry
INVARIANT TypeOK
INVARIANT AllocatedBlockUnshared
INVARIANT SpaceAccountingUnlessFailed
