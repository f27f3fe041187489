SPECIFICATION FairSpec
CONSTANTS
  l = l
  m = m
  n = n
  Names = {m, n}
  NoName = NoName
  Capacity = 1
  MaxAttempts = 2
  MaxVersions = 2
  MaxRestarts = 0
  Edits = {"add", "remove"}
  Faults = {"inotify", "list", "wait", "space", "move"}
  Stops = {"signal", "timeout", "crash"}
  Silent = TRUE
INVARIANTS
  TypeOK
  OneLateJob
PROPERTIES
  ShutdownStopsLoops
  QueuedJobsEnd
