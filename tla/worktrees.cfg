SPECIFICATION Spec
CONSTANTS
  Sessions = {s1, s2}
  Targets = {main}
  Default = main
  Names = {feature}
  Handlers = {h1}
  MaxCommits = 4
  MaxEdits = 1
  Faults = {"commit", "conflict", "enclosed"}
SYMMETRY Symmetry
INVARIANT Isolation
INVARIANT ReportedIsSafe
INVARIANT BaseStaysInHistory
PROPERTY NoStepLosesWork
CHECK_DEADLOCK FALSE
