CONSTANTS
  Words = {0, 1, 102, 127, 128, 153, 255}
  Programs = {"shr", "add"}
SPECIFICATION Spec
CHECK_DEADLOCK FALSE
INVARIANTS
  RotateTestsCarry
