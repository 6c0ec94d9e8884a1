SPECIFICATION FairSpec
CONSTANTS
  Files = {f1}
  MaxVersion = 1
  RowIds = {i1, i2}
  Jobs = {j1, j2}
  MaxOwed = 1
  BatchSize = 1
  Requests = {"retry", "consolidate"}
  Faults = {"git", "llm", "embed", "crash"}
  NoRow = NoRow
INVARIANT Settled
PROPERTY JobsEnd
