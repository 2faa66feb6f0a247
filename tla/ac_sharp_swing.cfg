SPECIFICATION Spec
CONSTANTS
  Remotes = {"SHARP_AC"}
  Careful = FALSE
PROPERTIES
  SwingFollows
