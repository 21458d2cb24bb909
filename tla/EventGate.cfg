SPECIFICATION Spec
CONSTANTS
  Emitters = {alarms, cards}
  Limit = 2
  Window = 3
  MaxClock = 7
  MaxStale = 1
  MaxChecks = 7
SYMMETRY Interchangeable
INVARIANTS TypeOK DropsAccounted BurstBound
PROPERTIES WindowsSpaced
CHECK_DEADLOCK FALSE
