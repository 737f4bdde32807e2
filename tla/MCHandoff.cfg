SPECIFICATION FairSpec
CONSTANTS
  a1 = a1
  a2 = a2
  Configs <- TwoConfigs
  LastTick = 2
  Slots = 1
  PushTimeout = 2
  Slack = 1
  MaxTries = 2
INVARIANTS
  TypeOK
  AcceptedReachesEngine
  AppliedNoncesIncrease
  SlotsAndNoncesHold
PROPERTIES
  NothingDeletedUnseen
  RunEnds
CHECK_DEADLOCK FALSE
