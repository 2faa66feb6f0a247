\* ESP32 with a save buffer.  With three entries and six edges a capture fills the
\* buffer, times out before it is full, overflows, and has a second message behind it.
SPECIFICATION Spec
CONSTANTS
  BufSize = 3
  SaveBuffer = TRUE
  Esp32 = TRUE
  MaxEdges = 6
INVARIANTS
  TypeOK
  ResultsContiguous
PROPERTIES
  StoppedIsFrozen
  EdgesStayInBuffer
  CaptureSpec
