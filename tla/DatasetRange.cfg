CONSTANTS
  Keys = {1, 2, 3}
  Values = {v1}
  NoValue = NoValue
  IterResults = {"ok"}
  WriteResults = {"ok", "err"}
  DiskCounts = {0, 1}
SPECIFICATION Spec
INVARIANT TypeOK
PROPERTY RangeDeleteOkClears
PROPERTY MigrateOkCoversRange
