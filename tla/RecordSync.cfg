CONSTANTS
  a = a
  b = b
  m = m
  e1 = e1
  e2 = e2
  Coordinators = {a, b}
  Members = {}
  EditsOf <- TwoAndNone
  Undoable = {}
  Unlocked = {}
  Restartable = {a}
  StaleReads = "newest"
  Floors = {2}
  MaxEdits = 2
  MaxClock = 4
  MaxRenewed = 4
  MaxFaults = 1
  MaxTasks = 1
SPECIFICATION Spec
INVARIANTS  FloorWithinRelay
PROPERTIES SignedIsSaved
