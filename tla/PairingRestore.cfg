SPECIFICATION PairedSpec
CONSTANTS
  p1 = p1
  p2 = p2
  n1 = n1
  n2 = n2
  Primaries = {p1}
  Networks = {n1, n2}
  Coord <- SharedCoord
  Independent = {}
  MaxTickets = 0
  MaxFaults = 1
INVARIANTS
  RevokedEverywhere
CHECK_DEADLOCK FALSE
