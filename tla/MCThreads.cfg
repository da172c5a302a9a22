CONSTANTS
  Base = 2
  Timers = {0, 2}
  Words <- MCWords
  CommandSlots = 3
  Commands = {1, 2}
  NPins = 2
  ClockPins = {0}
  WindowPins = {1}
  Masks <- MCMasks
  KeySlots = 4
  Keys = {30}
SPECIFICATION PartsSpec
INVARIANTS
  NoStorm
  PeriodKept
  AgreesUnlessMixed
  RequestsMatchBytes
PROPERTIES
  RingIsQueue
  CommandsCarriedOut
  StrandedRequestHeals
  FrontIsRead
