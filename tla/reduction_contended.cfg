SPECIFICATION FairEngineSpec
CONSTANTS
  NumCols = 4
  NumRows = 4
  Workers = {w1, w2}
  Problems <- ContendedApparent
  ParallelProblems <- ContendedApparent
INVARIANTS IInv NoEarlyZero
PROPERTY Termination
