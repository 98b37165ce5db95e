SPECIFICATION Spec
CONSTANTS
  Caller = {p1, p2}
  Watcher = {w1}
  Nobody = Nobody
  MaxDials = 2
INVARIANTS AfterCloseNothingOpen
CHECK_DEADLOCK FALSE
