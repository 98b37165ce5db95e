SPECIFICATION FairSpec
CONSTANTS
  Caller = {p1, p2}
  Watcher = {w1, w2}
  Nobody = Nobody
  MaxDials = 2
INVARIANTS HeldAndWhole
PROPERTIES CallsEnd
CHECK_DEADLOCK FALSE
