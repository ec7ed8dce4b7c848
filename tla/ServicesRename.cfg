SPECIFICATION ServicesSpec
CONSTANTS
  Parts = {"policy"}
  Offers = {1, 2}
  FileScenes <- AllFileScenes
  Nodes = {"a", "b"}
  HolderSets <- AllHolderSets
  Founder = "a"
  MaxSigns = 3
  MaxCrashes = 2
  DnsScenes <- AllDnsScenes
  ExitScenes <- AllExitScenes
  CtScenes <- AllCtScenes
  TcpFlowTimeout = 3
  TcpClosingTimeout = 2
  UdpFlowTimeout = 2
  VerdictTtl = 2
  VerdictCapacity = 1
  ReScenes <- AllReScenes
  Senders = {"p", "q"}
  TagLen = 1
  Header = 2
  MaxPacket = 4
  MaxFragments = 3
  MaxPending = 2
  Slots = 2
  ReTimeout = 1
  FqScenes <- AllFqScenes
  Buckets = {1, 2}
  Quantum = 2
  Target = 1
  Interval = 1
  QueueBytes = 8
  QueuePackets = 4
  Ingress = 3
  IngressBatch = 1
  SendBatch = 2
  PlScenes <- NewNetworkScenes
  Editors = {"e1", "e2"}
  NetNames = {"lan", "office"}
  NetKeys = {"n1", "n2"}
  FirstNet = "n1"
  FirstName = "lan"
  NoEntry = NoEntry
INVARIANT RenameFollows
CHECK_DEADLOCK FALSE
