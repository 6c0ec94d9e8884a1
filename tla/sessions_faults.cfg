SPECIFICATION Spec
CONSTANTS
  Sessions = {s1, s2}
  Tasks = {t1, t2}
  Handlers = {h1, h2}
  MaxSessions = 1
  MaxTurns = 1
  Faults = {"crash", "db"}
  NoTask = NoTask
  NoSession = NoSession
SYMMETRY Symmetry
INVARIANT LoopsRegistered
PROPERTY StopTakesEffect
PROPERTY ImplementsLifecycle
