SPECIFICATION FairSpec
CONSTANTS
  Stream = {s1}
  Kicks = 1
PROPERTIES LimitDisconnects
CHECK_DEADLOCK FALSE
