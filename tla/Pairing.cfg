SPECIFICATION PairedSpec
CONSTANTS
  p1 = p1
  p2 = p2
  n1 = n1
  n2 = n2
  Primaries = {p1}
  Networks = {n1}
  Coord <- OneCoord
  Independent = {}
  MaxTickets = 1
  MaxFaults = 1
INVARIANTS
  CleanupOwnsCert
  RequestAfterCleanup
  ConfirmedPairingStands
CONSTRAINT FewWaiting
PROPERTIES
  UnpairNotLost
CHECK_DEADLOCK FALSE
