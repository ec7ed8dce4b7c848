CONSTANTS
  a = a
  b = b
  x = x
  y = y
  z = z
  x2 = x2
  i1 = i1
  k = k
  web = web
  NoInvite = NoInvite
  NoName = NoName
  Nobody = Nobody
  AdminSets = {{a}, {a, b}}
  Cases <- AllCases
  Coordinators = {a, b}
  Peers = {x, y, z}
  Lanes = {x, y, z}
  PeerOf <- OneLaneEach
  Invites = {i1}
  Keys = {k}
  Presents <- AnySecret
  Bound <- BoundName
  Wants <- SameName
  Devices = {z}
  Mode = "restricted"
  MaxPending = 1
  MaxJoins = 3
  MaxKicks = 1
  MaxFaults = 3
SPECIFICATION MCSpec
 
PROPERTIES DenialIsDurable WelcomeIsDurable LedgersImplement
CHECK_DEADLOCK FALSE
