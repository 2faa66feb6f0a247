SPECIFICATION FairSpec
CONSTANTS
  BufSize = 2
  SaveBuffer = FALSE
  Esp32 = TRUE
  MaxEdges = 4
PROPERTIES
  CaptureEnds
