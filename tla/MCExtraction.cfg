SPECIFICATION Spec
CONSTANTS
  None = None
  left = left
  right = right
  Videos = {left, right}
  Probes <- MCProbes
  Minima <- MCMinima
  Rates <- MCRates
  MaxCpus = 2
  MaxFrames = 2
  MaxAttempts = 2
INVARIANTS
  TypeOK
  EveryVideoOnce
  FramesStay
  EveryFrameOnce
  ManifestIsTrue
  IntrinsicsFit
