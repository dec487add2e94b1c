SPECIFICATION FairSpec
CONSTANTS
  Subs = {s1}
  Capacity = 3
  HistoryChunks = 2
  Statuses = {ready, thinking}
  StartStatus = ready
  MaxSequence = 3
INVARIANTS NoSilentGap DrainedMeansCaughtUp
PROPERTIES ImplementsLossyStream OutputReachesEverySubscriber ExitReachesEverySubscriber
