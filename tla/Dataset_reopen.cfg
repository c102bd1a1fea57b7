CONSTANTS
  Names = {n1, n2}
  Handles = {h1, h2}
  MaxIds = 3
  MaxGen = 2
  None = None
  Absent = Absent
SPECIFICATION Spec





PROPERTY OpenInUseOnlyWhenHeld
