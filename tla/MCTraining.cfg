SPECIFICATION Spec
CONSTANTS
  Environments <- MCEnvironments
  MaxAttempts = 3
INVARIANTS
  TypeOK
  DeliversOneTrainedModel
  TrainedOnEnoughPoints
  NoMockUnasked
