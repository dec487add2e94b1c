SPECIFICATION FairSpecOfTheApp
CONSTANTS
  app = app
  viewer = viewer
  Daemon = Daemon
  NoSession = NoSession
  a = a
  b = b
  Local = {app}
  Remote = {viewer}
  Ids = {a, b}
  MaxSessions = 1
  MaxExited = 1
  MaxSpawns = 2
INVARIANTS WithinCap ShutdownLeavesNothing LostOnlyAfterAKill
PROPERTIES EndedStaysAttachable ShutdownEnds
