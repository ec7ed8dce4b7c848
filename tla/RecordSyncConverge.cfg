CONSTANTS
  a = a
  b = b
  m = m
  e1 = e1
  e2 = e2
  Coordinators = {a}
  Members = {m}
  EditsOf <- EditAndRemoval
  Undoable = {}
  Unlocked = {}
  Restartable = {a, m}
  StaleReads = "newest"
  Floors = {0, 2}
  MaxEdits = 2
  MaxClock = 8
  MaxRenewed = 3
  MaxFaults = 1
  MaxTasks = 1
SPECIFICATION FairSpec
PROPERTIES Converges EditsPublished
