SPECIFICATION Spec
CONSTANTS
  ChunkSize = 6
  Overlap = 3
  MinChunk = 3
  Lengths = {1, 2, 4, 6, 9}
  MaxPieces = 5
  sourceA = sourceA
  sourceB = sourceB
  sourceC = sourceC
  Sources <- ThreeSources
  MaxScore = 2
  Scale = 10000
  PerSource = 3
  MaxTopK = 3
  None = None
  Letters = {a, b}
  Blank = blank
  LineEnd = eol
  OtherLineEnd = crlf
  BadByte = bad
  Unknown = b
  letterN = letterN
  NewText <- NewLine
  MaxBody = 5
  MaxOld = 4
  MaxBoth = 8
  MaxForeign = 1
  Callers = {c1, c2}
  Texts = {t1, t2}
  NoVector = NoVector
  BatchSize = 2
  MaxTexts = 3
INVARIANT NoPieceLost
INVARIANT NoChunkRepeated
INVARIANT EverySourceSeen
INVARIANT FullAndDistinct
INVARIANT EditsOnlyWhatIsNamed
INVARIANT EmbeddingsAligned
CHECK_DEADLOCK FALSE
