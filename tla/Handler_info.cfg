CONSTANTS
  Threads = {t1, t2}
  Blocks = {1, 2}
  MaxGen = 2
  NoSnapshot = NoSnapshot
  NoBlock = NoBlock
  MaxFailures = 0
SPECIFICATION Spec
CONSTRAINT GenerationBound
INVARIANT StorageInfoCurrent
