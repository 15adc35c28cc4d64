\* Tables that start with two slots and rehash one node per call.
SPECIFICATION Spec
CONSTANTS
  text = text
  Other = Other
  Volatile = {}
  Hash <- MCHash
  InitSlots = 2
  MaxLoad = 1
  RehashWork = 1
  Bits = 4
INVARIANTS TablesSound TableBytesExact ScanComplete
PROPERTIES RefinesHash RefinesSets
VIEW View
