SPECIFICATION FairSpec
CONSTANTS
  Sessions = {s1}
  Tasks = {t1, t2}
  Handlers = {h1, h2}
  MaxSessions = 1
  MaxTurns = 2
  Faults = {}
  NoTask = NoTask
  NoSession = NoSession
INVARIANT NoStrandedRow
PROPERTIES StopAnswered LoopEnds
