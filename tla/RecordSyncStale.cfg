CONSTANTS
  a = a
  b = b
  m = m
  e1 = e1
  e2 = e2
  Coordinators = {a}
  Members = {m}
  EditsOf <- EditsAndRemoval
  Undoable = {}
  Unlocked = {e1}
  Restartable = {}
  StaleReads = "any"
  Floors = {2}
  MaxEdits = 2
  MaxClock = 4
  MaxRenewed = 2
  MaxFaults = 0
  MaxTasks = 2
SPECIFICATION Spec
 
PROPERTIES NoRollback
