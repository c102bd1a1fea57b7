CONSTANTS
  Keys = {1, 2, 3, 4}
  Values = {v1}
  UpsertKeys = {1}
  UpsertData = {d1, d2}
  MaxLeaf = 2
  MinLeaf = 1
  MaxRootMsgs = 2
  NoValue = NoValue
  NoMsg = NoMsg
  EmptyKey = EmptyKey
SPECIFICATION Spec
VIEW StateView
CHECK_DEADLOCK FALSE
INVARIANT NoRootMergePanic
