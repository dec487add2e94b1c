SPECIFICATION FairReattachSpec
CONSTANTS
  Subs = {s1}
  Capacity = 2
  HistoryChunks = 2
  Statuses = {ready}
  StartStatus = ready
  MaxSequence = 4
  WireCapacity = 2
  MaxDrops = 2
INVARIANTS ReattachTypeOK HolesAreRepairedAfterHonestDrops
PROPERTIES ScreenCatchesUp
CHECK_DEADLOCK FALSE
