CONSTANTS
  Gates <- MCGates
  Redirected = {}
  Length = 2
  Nest = 2
SPECIFICATION Spec
PROPERTIES
  CodeOnTop
