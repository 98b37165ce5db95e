SPECIFICATION Spec
CONSTANTS
  k1 = k1
  k2 = k2
  k3 = k3
  Lengths = {3, 5}
  MaxLoad = 11
  MaxSizes = {3}
  HeaderSize = 1
  i1 = i1
  i2 = i2
  i3 = i3
  ByteRange = 5
  MaxEntries = 2
  MaxMessageSize = 4
  FragTimeout = 1
  MaxTime = 2
  MaxCopies = 1
  Nonces = {1, 2}
  MaxLoss = 1
  Timeout = 2
  BothEnds = 1
  Span = 1
  StrideProbes = 2
  Probes = 2
  Burst = 2
  MinPort = 1
  MaxPort = 40
  MaxPeerAddrs = 16
  EventBuffer = 2
INVARIANTS Intact UndisturbedCompletes PunchedPathWorks PunchableIsPunched
CHECK_DEADLOCK FALSE
