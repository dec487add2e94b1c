SPECIFICATION ReattachSpec
CONSTANTS
  Subs = {s1}
  Capacity = 2
  HistoryChunks = 2
  Statuses = {ready, thinking}
  StartStatus = ready
  MaxSequence = 3
  WireCapacity = 2
  MaxDrops = 1
INVARIANTS HolesAreRepaired
CHECK_DEADLOCK FALSE
