\* A set with a deadline that may pass between two lookups of one command.
SPECIFICATION Spec
CONSTANTS
  text = text
  Other = Other
  Volatile = {1}
  Hash <- MCHash
  InitSlots = 2
  MaxLoad = 1
  RehashWork = 1
  Bits = 4
INVARIANT OperandsLive
VIEW View
