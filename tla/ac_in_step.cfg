SPECIFICATION Spec
CONSTANTS
  Remotes <- Supported
  Careful = TRUE
INVARIANTS
  TypeOK
  InStep
