\* Texts and values, the tree in memory, and files read and saved.
SPECIFICATION XmlSpec
CONSTANTS
  doc = doc
  null = null
INVARIANTS
  Decoded
  RoundTrip
  Reads
  MemoryWhole
PROPERTIES
  ForestRefined
CHECK_DEADLOCK FALSE
