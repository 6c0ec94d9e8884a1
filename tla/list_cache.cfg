SPECIFICATION FairListSpec
CONSTANTS
  Clients = {c1, c2}
  Writers = {w1, w2}
  MaxWrites = 3
  None = None
  ListFaults = {"select", "ack"}
INVARIANT BustedWritesShow
PROPERTY ListsCatchUp
