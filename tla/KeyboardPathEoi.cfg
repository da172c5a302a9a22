CONSTANTS
  RingSize = 4
  Keys = {30}
SPECIFICATION Spec
PROPERTIES
  RemainingByteStaysRequested
