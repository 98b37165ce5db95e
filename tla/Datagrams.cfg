SPECIFICATION Spec
CONSTANTS
  Sess = {1, 2}
  IdOf <- MCIdOf
  Peer = {1, 2}
  Caller = {1, 2}
  None = None
  Clash = {1, 2}
  EpochLen = 2
  DiscoSkew = 1
  Sendings <- MCSendings
  ReplayWindow = 2
  SeqCeiling = 5
  MaxNow = 2
  MaxCalls = 3
  MaxEvents = 4
  ID = {1}
  e1 = e1
  e2 = e2
  NoEntry = NoEntry
  a1 = a1
  a2 = a2
  NoAddr = NoAddr
  IdleTimeout = 0
  QueueLen = 1
  MaxCache = 1
  Ports = {p1}
  MaxHops = 2
  MaxSets = 2
  MaxSent = 1
  QueueSize = 1
  a = a
  b = b
  GeckoIds = 2
  Chunks = {2}
  MaxPerSource = 2
  MaxReassembly = 2
  TTL = 1
  GCEvery = 1
  LinkLife = 0
  GeckoTime = 2
  Arrivals = {d1}
  Epoch = 0
  Start = 20
  Floor = 20
  WallStarts = {0, 19, 23}
  PeerSkews <- MCPeerSkews
  ClockStarts <- MCClockStarts
  Offers = {0, 9}
  Servers = 3
  QueryTimeout = 1
  Second = 2
  MaxSkew = 2
  StepThreshold = 1
  SourceError = 0
  BucketCount = 4
  MaxSteps = 1
  MaxLives = 2
  ClockTime = 9
  AskTime = 3
  CorrectedTime = 6
INVARIANTS AcceptedOnce IndexesFollowTable OpenIsRegistered WritesAllowed
  SocketsAsAsked EntriesAccounted HandedUpOnce
PROPERTIES FreshFindsItsSession ExitRemovesOwn ImplementsDatagrams
CHECK_DEADLOCK FALSE
