CONSTANTS
  a = a
  b = b
  m = m
  e1 = e1
  e2 = e2
  Coordinators = {a, b}
  Members = {}
  EditsOf <- OneEach
  Undoable = {}
  Unlocked = {e1}
  Restartable = {}
  StaleReads = "newest"
  Floors = {2}
  MaxEdits = 2
  MaxClock = 4
  MaxRenewed = 3
  MaxFaults = 1
  MaxTasks = 1
SPECIFICATION Spec
PROPERTIES UnpublishedEditKept
