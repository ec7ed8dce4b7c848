SPECIFICATION Spec
CONSTANTS
  a = a
  b = b
  Ends = {a, b}
  Nets = {1, 2}
  Conns = {1, 2, 3}
  Tasks = {1, 2}
  OnDemand = {a}
  Scenes <- AllScenes
  LaneDepth = 1
INVARIANTS TypeOK SameLink  OneDial
CHECK_DEADLOCK FALSE
