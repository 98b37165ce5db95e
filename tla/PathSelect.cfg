SPECIFICATION Spec
CONSTANTS
  h1 = h1
  h2 = h2
  h3 = h3
  NoAddr = NoAddr
  Ip <- MCIp
  Configs <- MCConfigs
  RTTs <- MCRTTs
  SilenceSlack = 1
  AckDelay = 0
  Granularity = 0
  MaxTime = 8
  MaxRx = 1
INVARIANTS TypeOK SilenceEndsInGiveUp
PROPERTIES OnlySilenceCondemns EachCandidateOnce GiveUpStands NoSwitchOnceGone
CHECK_DEADLOCK FALSE
