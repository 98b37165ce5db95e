SPECIFICATION Spec
CONSTANTS
  Packet = {k1}
  Lengths = {3}
  MaxLoad = 11
  MaxSizes = {3}
  HeaderSize = 1
  PacketID = {i1}
  ByteRange = 256
  MaxEntries = 2
  MaxMessageSize = 4
  Timeout = 1
  MaxTime = 2
  MaxCopies = 1
  CutLengths <- MCCutLengths
  CutSizes <- MCCutSizes
INVARIANTS LoggedOnce
CHECK_DEADLOCK FALSE
