------------------------------ MODULE SparseRips ------------------------------
(***************************************************************************)
(* One diagram from request to result (holos-tda/src/factorization.rs,     *)
(* compute_sparse, and solver.rs): the whole graph through the engine, or, *)
(* when it is factored, H0 of the whole graph and the other dimensions of  *)
(* every cyclic block on its own.  The blocks may be solved in any order.  *)
(***************************************************************************)
EXTENDS RipsEngine, GraphBlocks, RipsOracle

CONSTANT Requests     \* [kind, input, threshold, params, split]

VARIABLES
  request,
  stage,        \* "blocks", ..., "done"
  jobs,         \* the computations that are left, [graph, params, above]
  current,      \* the one the engine runs
  collected     \* the bars collected so far

sparseVars == <<engineVars, blockVars, request, stage, jobs, current, collected>>

\* The graph of the request at its threshold.  A dense input without one is
\* cut at its enclosing radius, a sparse one not at all.
EnclosingRadius(g) ==
  Min({Max({0} \cup {g.dist[{u, v}] : v \in g.points \ {u}}) : u \in g.points})

TerminalThreshold(r) ==
  IF r.threshold # Infinite THEN r.threshold
  ELSE IF r.dense THEN EnclosingRadius(r.input) ELSE Infinite

Terminal(r) == Within(r.input, TerminalThreshold(r))

-----------------------------------------------------------------------------

\* One call of solver::compute, and the dimension above which its bars count.
Job(g, p, above) == [graph |-> g, params |-> p, above |-> above]
NoJob == Job([points |-> {}, dist |-> <<>>], <<>>, -1)

\* selected
Selected(mode, blocks) ==
  LET cyclic == {b \in blocks : IsCyclic(b)}
      sizes  == {Cardinality(b.edges) : b \in cyclic}
      total  == MapThenSumSet(LAMBDA b : Cardinality(b.edges), cyclic)
  IN  \/ mode = "force"
      \/ /\ mode = "auto"
         /\ Cardinality(cyclic) >= 2
         /\ 10 * Max(sizes) <= 9 * total

\* compute_sparse, solve_block: H0 of the whole graph, then every cyclic block,
\* of which only the bars above dimension 0 are kept.
BlockJobs(g, p, blocks) ==
  {Job(g, [p EXCEPT !.maxDim = 0], -1)}
    \cup {Job(BlockGraph(g, b), p, 0) : b \in {b \in blocks : IsCyclic(b)}}

NeedsBlocks(r) == r.split # "off" /\ r.params.maxDim > 0

Requested(r) ==
  /\ request = r
  /\ stage = "start"
  /\ jobs = {}
  /\ current = NoJob
  /\ collected = EmptyBag
  /\ search = NewSearch(Terminal(r))
  /\ refining = NewRefinement({})
  /\ EngineInit

SparseInit == \E r \in Requests : Requested(r)

\* compute_sparse: whether to decompose at all.
Route ==
  /\ request.kind = "diagram" /\ stage = "start"
  /\ IF NeedsBlocks(request) THEN stage' = "blocks" /\ UNCHANGED jobs
     ELSE stage' = "solve" /\ jobs' = {Job(Terminal(request), request.params, -1)}
  /\ UNCHANGED <<engineVars, blockVars, request, current, collected>>

Decompose ==
  /\ stage = "blocks" /\ ~SearchDone
  /\ SearchStep
  /\ UNCHANGED <<engineVars, request, stage, jobs, current, collected>>

\* compute_sparse after decompose.
Select ==
  /\ request.kind = "diagram" /\ stage = "blocks" /\ SearchDone
  /\ stage' = "solve"
  /\ jobs' = IF Selected(request.split, search.blocks)
             THEN BlockJobs(Terminal(request), request.params, search.blocks)
             ELSE {Job(Terminal(request), request.params, -1)}
  /\ UNCHANGED <<engineVars, blockVars, request, current, collected>>

StartJob ==
  /\ phase = "idle"
  /\ \E job \in jobs :
       /\ StartEngine(job.graph, job.params)
       /\ current' = job
       /\ jobs' = jobs \ {job}
  /\ UNCHANGED <<blockVars, request, stage, collected>>

Compute == EngineStep /\ UNCHANGED <<blockVars, request, stage, jobs, current, collected>>

\* The engine returns; its buffers are dropped.
EngineReturns ==
  /\ phase = "done" /\ phase' = "idle"
  /\ todo' = {} /\ forest' = NewForest({}) /\ active' = {} /\ simplices' = {}
  /\ columns' = {} /\ pivots' = <<>> /\ previous' = {}
  /\ bars' = EmptyBag /\ classes' = {}
  /\ UNCHANGED <<filtration, params, dim, work>>

Collect ==
  /\ request.kind = "diagram"
  /\ EngineReturns
  /\ collected' = collected (+) Restrict(bars, {b \in DOMAIN bars : b.dim > current.above})
  /\ UNCHANGED <<blockVars, request, stage, jobs, current>>

Return ==
  /\ request.kind = "diagram" /\ stage = "solve"
  /\ phase = "idle" /\ jobs = {}
  /\ stage' = "done"
  /\ UNCHANGED <<engineVars, blockVars, request, jobs, current, collected>>

SparseNext ==
  \/ Route \/ Decompose \/ Select \/ StartJob \/ Compute \/ Collect \/ Return

-----------------------------------------------------------------------------
(* Properties *)

\* Whatever shortcuts are on, whether the graph is factored, in blocks or with
\* activation rows, at any threshold: the diagram is the one that textbook
\* reduction of the whole complex gives.  Without a threshold a dense input
\* is cut at its enclosing radius, and the textbook is not.
BarsExact ==
  request.kind = "diagram" /\ stage = "done" =>
    collected = OracleBars(Within(request.input, request.threshold),
                         request.params.maxDim)

\* At every step the working column is the coboundary of what has been folded
\* into it, and every pivot on record is the youngest simplex of the
\* coboundary of its column: a shortcut that skipped the column, and the sign
\* of an apparent facet, are right.
Columns(c, red) == AddScaled(UnitChain(c, 1), red, 1)

ColumnsReduced ==
  phase = "reduce" =>
    /\ IsWorking => work.cob = Coboundary(Columns(work.column, work.red))
    /\ \A r \in DOMAIN pivots :
         LET cob == Coboundary(Columns(pivots[r].column, pivots[r].v))
         IN  /\ r = YoungestOf(filtration, DOMAIN cob)
             /\ pivots[r].coefficient = cob[r]

\* Every fold, of a recorded column or of an apparent facet, cancels the pivot
\* of the working column and leaves only older cofacets: no column is folded
\* for ever.
FoldsAdvance ==
  [][IsWorking /\ IsWorking' /\ work'.cob # ZeroChain =>
       ColumnBefore(filtration, PivotSimplex', PivotSimplex)]_engineVars
=============================================================================
