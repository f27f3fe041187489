SPECIFICATION Spec
CONSTANTS
  l = l
  m = m
  n = n
  Names = {l, m, n}
  NoName = NoName
  Capacity = 2
  MaxAttempts = 2
  MaxVersions = 2
  MaxRestarts = 1
  Edits = {}
  Faults = {"inotify", "list", "wait", "space", "move"}
  Stops = {"signal", "timeout", "crash"}
  Silent = TRUE
INVARIANTS
  OnceInHand
  CheckStaysTrue
  OnePlace
PROPERTIES
  ProcessedWasRun
  RetriesAreUsed
  KeepsLedger
SYMMETRY Symmetry
