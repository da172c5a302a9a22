CONSTANTS
  Channels = {2}
  Half = 2
  Holders = {4}
  Drives = {0}
  Sector = 2
  Cylinders = 2
  Eot = 2
  SnWrap = 4
  Words = 2
  PacketWords = 1
  PerBlock = 3
  Cds = {1}
  Multis = {2}
  Counts = {0, 1}
  AllSectors = 3
  Limits = {0, 3, 4}
  Wrap = 10
  Codes = {"read", "recalib"}
  Params <- MCParams
  Dors <- MCDors
SPECIFICATION MCSpec
INVARIANTS
  AccountsAgree
PROPERTIES
  TransfersRight
  TransfersEnd
