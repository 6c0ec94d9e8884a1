SPECIFICATION FairSpec
CONSTANTS
  Pages = {p1}
  Capacity = 2
  MaxLoops = 2
  MaxQueues = 3
  MaxSent = 1
  Faults = {"llm", "db", "crash", "network"}
INVARIANTS NoStaleEnd DiscardedQueuesEnd
PROPERTY PagesCatchUp
CHECK_DEADLOCK FALSE
