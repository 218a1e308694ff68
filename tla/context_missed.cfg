CONSTANTS
  r1 = r1
  r2 = r2
  Requests = {r1, r2}
  Histories <- Chats
  TailMessages = 2
  MinMessages = 1
  RefreshMessages = 2
  LoadLimit = 1
  StoreLimit = 2
  MaxLate = 1
SYMMETRY RequestSymmetry
SPECIFICATION Spec
INVARIANT LongestIsLoaded
