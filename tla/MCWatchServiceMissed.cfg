SPECIFICATION FairSpec
CONSTANTS
  l = l
  m = m
  n = n
  Names = {m, n}
  NoName = NoName
  Capacity = 1
  MaxAttempts = 1
  MaxVersions = 1
  MaxRestarts = 0
  Edits = {}
  Faults = {}
  Stops = {}
  Silent = FALSE
PROPERTIES
  EveryUploadIsTaken
