SPECIFICATION Spec
CONSTANTS
  ID = {1}
  Entry = {e1}
  NoEntry = NoEntry
  a1 = a1
  NoAddr = NoAddr
  IdleTimeout = 0
  QueueLen = 1
  MaxCache = 1
  Stream = {s1}
  Kicks = 2
  Conn = {c1, c2}
  NoConn = NoConn
  IdRange = 4
  ChanSize = 1
  Procs = {p1, p2}
  MaxLaunches = 3
  MaxAttempts = 3
  MaxFailures = 2
  Client = {d1}
  Request = {r1, r2}
  User = {u1}
  NoUser = NoUser
  Nobody = Nobody
  DisableUDP = FALSE
  Debounce = 2
  MaxDelay = 3
  PollInterval = 2
  RawSize = 2
  MaxChanges = 2
  Value = {0, 1}
  NoTimer = NoTimer
  NoEvent = NoEvent
  NoSnapshot = NoSnapshot
PROPERTIES SessionsEnd AllEnd NoReaderStuck MimicEnds ModeFailureIsFatal GoneGoesOffline StaleIsRefreshed
CHECK_DEADLOCK FALSE
