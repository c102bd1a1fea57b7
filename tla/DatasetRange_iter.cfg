CONSTANTS
  Keys = {1, 2, 3}
  Values = {v1}
  NoValue = NoValue
  IterResults = {"ok", "err"}
  WriteResults = {"ok", "err"}
  DiskCounts = {0, 1}
SPECIFICATION Spec
PROPERTY RangeDeleteOkClears
