SPECIFICATION Spec
CONSTANTS
  BufSize = 2
  SaveBuffer = FALSE
  Esp32 = FALSE
  MaxEdges = 4
INVARIANTS
  HeapIntact
