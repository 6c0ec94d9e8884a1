SPECIFICATION FairSpec
CONSTANTS
  MaxPodcasts = 2
  Jobs = {j1, j2}
  Faults = {"pipeline", "db", "crash"}
INVARIANTS ServedIsWhole
PROPERTIES ReadyKept PodcastsEnd
CHECK_DEADLOCK FALSE
