SPECIFICATION AllSpec
CONSTANTS
  NumVertices = 0
  MaxLevel = 1
  MarkLimit = 0
  Inputs = {}
  Windows = {}
  Objectives = {}
  WorkLimits = {}
  Schedules = {"index"}
  Streams <- StillStreams
  Threshold = 3
  MaxDim = 1
  Modulus = 3
INVARIANT
  RecordsAccepted
