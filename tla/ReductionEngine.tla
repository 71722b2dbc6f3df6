---------------------------- MODULE ReductionEngine ----------------------------
(****************************************************************************)
(* One dimension of Engine::run (reduce/engine.rs): a budget of one worker  *)
(* takes the serial reducer, stepped one column at a time, and a larger one *)
(* the parallel engine.  The serial pairs are compared with the ranks of    *)
(* the submatrices, which determine them without reducing anything.         *)
(****************************************************************************)
EXTENDS ParallelReduction

CONSTANT ParallelProblems   \* the problems that a budget of two is tried on

VARIABLES
  budget,      \* the workers of the region
  pivots,      \* the serial reducer's table
  position     \* and its next column

serialVars == <<budget, pivots, position>>
allVars    == <<vars, serialVars>>

EngineInit ==
  /\ Init
  /\ budget \in {1, 2}
  /\ budget = 2 => ctx \in ParallelProblems
  /\ pivots = EmptyTable
  /\ position = 0

\* reduce_dimension, one column.
ReduceColumn ==
  /\ budget = 1
  /\ position < NumCols
  /\ LET last == ReduceSerialColumn(ctx, pivots, position)
     IN  pivots' = IF last.pivot = NoPivot THEN pivots
                   ELSE Installed(pivots, last.pivot,
                                  [col |-> position, v |-> last.v])
  /\ position' = position + 1
  /\ UNCHANGED <<vars, budget>>

\* reduce_dimension_parallel, one step of one thread.
StepInPool(w) == budget = 2 /\ Step(w) /\ UNCHANGED serialVars

PoolReturned == budget = 2 /\ Returned /\ UNCHANGED serialVars

Finished == budget = 1 /\ position = NumCols /\ UNCHANGED allVars

EngineNext ==
  ReduceColumn \/ (\E w \in Workers : StepInPool(w)) \/ PoolReturned \/ Finished

EngineSpec == EngineInit /\ [][EngineNext]_allVars

\* The calling thread and each thread of the pool are scheduled for as long
\* as they run.
FairEngineSpec ==
  /\ EngineSpec
  /\ WF_allVars(ReduceColumn)
  /\ \A w \in Workers : WF_allVars(StepInPool(w))

-----------------------------------------------------------------------------
(* Properties *)

\* Every dimension ends.  In the pool displacement always ends and a worker
\* with nothing left to take is not kept polling for ever.
Termination == <>(IF budget = 1 THEN position = NumCols ELSE AllExited)

ApparentFacets == { -r : r \in ctx.apparent }

\* The chains of the first n columns and the apparent facets, on rows 1..r.
SpanOn(r, n) ==
  { Boundary(ctx, S) \cap (1 .. r) : S \in SUBSET (ApparentFacets \cup 0 .. n - 1) }

\* The rank of that submatrix.
RankOn(r, n) == CHOOSE k \in 0 .. NumRows : 2 ^ k = Cardinality(SpanOn(r, n))

\* Row r and column c form a pair when c is what raises the rank at row r.
RankPairs(n) ==
  { rc \in Rows \X (0 .. n - 1) :
      RankOn(rc[1], rc[2] + 1) - RankOn(rc[1] - 1, rc[2] + 1)
        - RankOn(rc[1], rc[2]) + RankOn(rc[1] - 1, rc[2]) = 1 }

\* After every column the registry holds exactly the pairs that the ranks of
\* the submatrices determine: neither shortcut changes a pair, and the columns
\* that reduce to zero are the ones that add no rank.
PairsByRank ==
  budget = 1 => { <<r, pivots[r].col>> : r \in DOMAIN pivots } = RankPairs(position)
=============================================================================
