SPECIFICATION EngineSpec
CONSTANTS
  NumCols = 3
  NumRows = 3
  Workers = {w1, w2}
  Problems <- EngineProblems
  ParallelProblems <- MatrixProblems
SYMMETRY Symmetry
INVARIANTS ColumnInOnePlace OwnersReduce PairsByRank
PROPERTY RefinesRegistry
