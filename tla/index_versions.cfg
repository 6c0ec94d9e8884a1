SPECIFICATION Spec
CONSTANTS
  Files = {f1}
  MaxVersion = 2
  RowIds = {i1, i2}
  Jobs = {j1, j2}
  MaxOwed = 1
  BatchSize = 1
  Requests = {"retry", "session", "merge"}
  Faults = {"embed"}
  NoRow = NoRow
SYMMETRY Symmetry
INVARIANT ChunksFollowMemory
INVARIANT MemoriesOfWalkedFiles
PROPERTY MarkedAsRead
