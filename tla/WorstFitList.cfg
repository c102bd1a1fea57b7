CONSTANTS
  SEGMENT_SIZE = 4
  MaxFreeRuns = 4
SPECIFICATION Spec
CONSTRAINT FreeListBound
INVARIANT TypeOK
 
PROPERTY NoDoubleAllocation
