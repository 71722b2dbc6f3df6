SPECIFICATION AllSpec
CHECK_DEADLOCK FALSE
CONSTANTS
  NumVertices = 13
  MaxLevel = 2
  MarkLimit = 3
  Inputs <- RetestInputs
  Windows = {1}
  Objectives = {"H1"}
  WorkLimits <- MCWorkLimits
  Schedules = {"ordered"}
  Streams = {}
  Threshold = 3
  MaxDim = 1
  Modulus = 3
INVARIANT
  MatchesFullRetest
