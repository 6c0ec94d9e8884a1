SPECIFICATION Spec
CONSTANTS
  Notebooks = {n1, n2}
  Sources = {s1, s2}
  Names = {f}
  d1 = d1
  d2 = d2
  d3 = d3
  c1 = c1
  c2 = c2
  Docs = {d1, d2, d3}
  ChunkIds = {c1, c2}
  Cut <- SharedCut
  Faults = {"pipeline", "db", "crash"}
  NoSource = NoSource
  NoName = NoName
  NoDoc = NoDoc
  NoRow = NoRow
SYMMETRY Symmetry
INVARIANT OwnContent
INVARIANT NoForeignText
INVARIANT ReadyIsComplete
INVARIANT SourcesSettle
CHECK_DEADLOCK FALSE
