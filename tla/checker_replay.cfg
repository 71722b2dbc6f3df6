SPECIFICATION MCSpec
CONSTANTS
  Parties = {"atom"}
  Atoms = {1, 2}
  Shapes = {"two", "one", "none"}
  AtomsOf <- MCAtomsOf
  Locals = {"x", "y", "z"}
  Certs = {"c1", "c2", "c3"}
  Accept <- MCAccept
  Fresh <- MCFresh
  Repair <- MCRepair
  Splits <- MCSplits
  TooLarge = {"c3"}
  MaxTears = 1
  MaxSteps = 3
  Batches <- MCBatches
  Modulus = 2
  Threshold = 3
  RowsBlock = 2
  SeparatorWidth = 3
  SearchLimit = 12
  Weightings <- Theta
  Requests = {}
CHECK_DEADLOCK FALSE
INVARIANT
  CheckerAccepts
