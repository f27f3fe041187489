\* A process whose signal came before it waited hangs with nothing left to do.
SPECIFICATION FairSpec
CONSTANTS
  MaxJobs = 3
  MaxSignals = 2
  Mounted = TRUE
INVARIANTS
  TypeOK
  CleanExitIsClean
  UnmountedLast
  ProcessingMeansRunning
PROPERTIES
  NotifiedProcessEnds
CHECK_DEADLOCK FALSE
