SPECIFICATION FairPairedSpec
CONSTANTS
  p1 = p1
  p2 = p2
  n1 = n1
  n2 = n2
  Primaries = {p1, p2}
  Networks = {}
  Coord <- NoCoord
  Independent = {}
  MaxTickets = 1
  MaxFaults = 1
PROPERTIES
  UnpairCompletes
CHECK_DEADLOCK FALSE
