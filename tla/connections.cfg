SPECIFICATION FairSpec
CONSTANTS
  Callers = {t1, t2, t3}
  Retrying = {t1}
  MinConn = 2
  MaxConn = 2
  MaxRetries = 1
  MaxDrops = 3
  Faults = {"refuse", "statement", "ack"}
INVARIANT NeverExhausted
PROPERTY IdleDropsAbsorbed
PROPERTY OnceUnlessUnanswered
PROPERTY CallsEnd
