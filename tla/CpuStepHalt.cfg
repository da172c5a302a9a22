CONSTANTS
  Length = 2
  Depth = 2
SPECIFICATION Spec
INVARIANTS
  InterruptWakes
