CONSTANTS
  Dirs = {0}
  Tabs = {0, 1}
  N = 2
  Frames = {0, 1}
  Contents <- MCContents
  Pae = FALSE
SPECIFICATION Spec
PROPERTIES
  Cr3Flushes
