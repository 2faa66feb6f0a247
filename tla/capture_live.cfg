\* ESP8266 without a save buffer: results points into the live buffer.  Two entries
\* and five edges: full, timed out, overflown, and a second message behind.
SPECIFICATION FairSpec
CONSTANTS
  BufSize = 2
  SaveBuffer = FALSE
  Esp32 = FALSE
  MaxEdges = 5
INVARIANTS
  IInv
PROPERTIES
  CaptureSpec
  ListensAgain
  CaptureEnds
