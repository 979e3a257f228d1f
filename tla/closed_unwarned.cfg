CONSTANTS
  Handlers = {h1}
  Grace = 2
  Punctual = TRUE
SPECIFICATION Spec
PROPERTIES WarnedBeforeClosed
