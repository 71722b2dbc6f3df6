SPECIFICATION AllSpec
CHECK_DEADLOCK FALSE
CONSTANTS
  NumVertices = 5
  MaxLevel = 2
  MarkLimit = 3
  Inputs <- MCInputs
  Windows = {2, 3}
  Objectives = {"H1", "H2"}
  WorkLimits <- MCWorkLimits
  Schedules = {"ordered", "rounds", "adaptive", "index"}
  Streams <- MCStreams
  Threshold = 3
  MaxDim = 1
  Modulus = 3
INVARIANTS
  CacheFresh
  FrozenVerdictHolds
  VerifierAccepts
  KeepsShape
  IndexExact
  VerifierFollows
  VerifierSound
PROPERTY
  RefinesSerial
