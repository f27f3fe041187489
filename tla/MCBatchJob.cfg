SPECIFICATION Spec
CONSTANTS
  quiet = quiet
  busy = busy
  other = other
  ply = ply
  splat = splat
  Blobs = {quiet, busy, other}
  Videos = {quiet, busy}
  Late = {busy}
  Outputs = {ply, splat}
  MaxVersions = 2
  MaxRuns = 2
  Faults = {"list", "download", "pipeline", "upload", "copy", "delete", "clean", "crash"}
INVARIANTS
  TypeOK
  NoBlobLost
  OutputsBelongTogether
PROPERTIES
  ProcessedWasPublished
