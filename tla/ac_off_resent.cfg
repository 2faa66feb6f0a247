SPECIFICATION Spec
CONSTANTS
  Remotes = {"KELON"}
  Careful = FALSE
PROPERTIES
  OffIsOff
