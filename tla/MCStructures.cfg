\* A ring of three bytes; lists of five values; five members; six deadlines.
SPECIFICATION AllSpec
CONSTANTS
  Byte <- MCByte
  Zero <- MCZero
  Offsets <- MCOffsets
  Cap = 3
  MaxStream = 7
  MaxFeed = 5
  Empty = Empty
  Values = {a, b}
  Size <- InlineSizes
  MinCap = 2
  Word = 64
INVARIANTS CopyIsNewest ListSound IndexesAgree HeapFaithful FramesIntact
PROPERTIES RefinesList RefinesZSet
VIEW View
