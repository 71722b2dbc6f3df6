SPECIFICATION MCSpec
CONSTANTS
  Parties = {"engine"}
  Atoms = {1, 2}
  Shapes = {"two", "one", "none"}
  AtomsOf <- MCAtomsOf
  Locals = {"x", "y", "z"}
  Certs = {"c1", "c2", "c3"}
  Accept <- MCAccept
  Fresh <- MCFresh
  Repair <- MCRepair
  Splits <- MCSplits
  TooLarge = {"c3"}
  MaxTears = 1
  MaxSteps = 3
  Batches <- MCBatches
  Modulus = 3
  Threshold = 3
  RowsBlock = 2
  SeparatorWidth = 3
  SearchLimit = 12
  Weightings = {}
  Requests <- ProgramRequests
CHECK_DEADLOCK FALSE
INVARIANT
  CompileAccepts
