SPECIFICATION Spec
CONSTANTS
  app = app
  viewer = viewer
  Daemon = Daemon
  NoSession = NoSession
  a = a
  b = b
  Local = {app}
  Remote = {viewer}
  Ids = {a}
  MaxSessions = 1
  MaxExited = 1
  MaxSpawns = 2
INVARIANTS NoLostSession
