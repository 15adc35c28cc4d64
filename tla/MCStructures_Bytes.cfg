\* Lists of strings with buffers of different sizes.
SPECIFICATION AllSpec
CONSTANTS
  Byte <- MCByte
  Zero <- MCZero
  Offsets <- MCOffsets
  Cap = 3
  MaxStream = 7
  MaxFeed = 5
  Empty = Empty
  Values = {a, b}
  Size <- MixedSizes
  MinCap = 2
  Word = 64
INVARIANT ListBytesExact
VIEW View
