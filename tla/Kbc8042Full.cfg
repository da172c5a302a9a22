CONSTANTS
  RingSize = 3
  Keys = {30, 158}
  Commands = {170, 96, 173, 174}
  DataBytes = {1, 244}
  GateBytes = {}
SPECIFICATION Spec
PROPERTIES
  ResponseKeepsBuffer
