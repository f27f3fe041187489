SPECIFICATION Spec
CONSTANTS
  Environments <- MCEnvironments
  MaxAttempts = 3
INVARIANTS
  CountsTheReconstruction
