SPECIFICATION Spec
CONSTANTS
  Bws = {1, 2}
  Rtts = {1}
  Extras = {1}
  AtSends = {0, 1}
  MinPackets = 1
  InitialPackets = 2
  MaxPackets = 2
  DatagramSizes = {1, 2}
  Old = 2
  MinRttExpiry = 0
  ProbeRttTime = 1
  NumStartupRtts = 1
  LossCount = 1
  HighGain = 9
  DrainGain = 2
  HighCwndGain = 7
  CwndGain = 7
  DrainToTarget = TRUE
  DetectOvershooting = TRUE
  LostMultiplier = 1
  AckAggregation = FALSE
  Reordering = 1
  MaxLoss = 1
  MaxPacket = 4
  MaxTime = 3
  Window = 1
  Scale = 4
  PacketThreshold = 3
  Avoid = TRUE
  Reduce = TRUE
  Rates = {1, 2}
  BrutalRtts = {1, 2}
  BrutalPackets = 3
  BrutalTime = 3
  MaxCalls = 1
  SlotCount = 2
  MinSamples = 2
  MinSamplesExit = 1
  CwndFloor = 2
  CwndCeiling = 8
  Burst = 2
  RebaselineSamples = 1
  RebaselineWindow = 0
  TrackLimit = 2
  DisableLossCompensation = FALSE
  MaxStarts = 2
  MaxFailures = 2
  MaxAttempts = 3
  Stream = {s1}
  Kicks = 2
  Debounce = 2
  MaxDelay = 3
  PollInterval = 2
  RawSize = 2
  MaxChanges = 3
  Value = {0, 1}
  NoTimer = NoTimer
  NoEvent = NoEvent
  NoSnapshot = NoSnapshot
  Client = {d1, d2}
  Request = {r1, r2}
  User = {u1, u2}
  NoUser = NoUser
  Nobody = Nobody
  DisableUDP = FALSE
  Conn = {c1, c2, c3}
  NoConn = NoConn
  IdRange = 4
  ChanSize = 1
INVARIANTS WindowInBounds KnownUntilResolved CorrectionsLand PortsReachListener OnlineExact RoutedRight NothingHeld
  NothingLeft NoChangeMissed
CHECK_DEADLOCK FALSE
