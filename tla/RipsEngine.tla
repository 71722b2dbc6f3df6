------------------------------ MODULE RipsEngine ------------------------------
(***************************************************************************)
(* One computation of the reduction engine (holos-tda/src/reduce): H0 by   *)
(* one union-find pass over the sorted edges, then every higher dimension  *)
(* by implicit cohomology, one column at a time, with clearing and with    *)
(* the emergent and apparent shortcuts.  The parallel reducer of a         *)
(* dimension is ParallelReduction; a deferred test of the cycle edges      *)
(* (Dim0Walk) reads the same distances and accepts the same columns.       *)
(***************************************************************************)
EXTENDS FlagFiltration, Bags

CONSTANT RowsBlock        \* DIM0_ROWS_BLOCK

ASSUME RowsBlockAssumption == RowsBlock \in Nat \ {0}

VARIABLES
  phase,        \* "idle", "edges", "reduce", then "done"
  filtration,   \* the complex: no edge is above the threshold
  params,       \* [maxDim, apparent, emergent, clearing, rows, classes]
  todo,         \* the edges, then the columns, that are left
  forest,       \* the union-find
  active,       \* the activation rows
  dim,
  simplices,    \* all simplices of dimension dim
  columns,      \* accepted in the walk over the edges
  pivots,       \* pivot -> [column, coefficient, v]
  previous,     \* the pivots of the dimension below
  work,         \* the working column
  bars,         \* a bag of [dim, birth, death]
  classes       \* the cocycles of positive H1 intervals

engineVars == <<phase, filtration, params, todo, forest, active, dim, simplices,
                columns, pivots, previous, work, bars, classes>>

Bar(d, birth, death) == [dim |-> d, birth |-> birth, death |-> death]
OneBar(d, birth, death) == SetToBag({Bar(d, birth, death)})

Idle == [column |-> {}]
IsWorking == work # Idle

\* UnionFind::new
NewForest(points) ==
  [parent |-> [v \in points |-> v], rank |-> [v \in points |-> 0]]

\* Engine::new_in on a thresholded graph.
StartEngine(g, p) ==
  /\ phase' = "edges"
  /\ filtration' = g
  /\ params' = [p EXCEPT !.maxDim = Min({@, Cardinality(g.points) - 1})]
  /\ todo' = DOMAIN g.dist
  /\ forest' = NewForest(g.points)
  /\ active' = {}
  /\ dim' = 0
  /\ simplices' = {}
  /\ columns' = {}
  /\ pivots' = <<>>
  /\ previous' = {}
  /\ work' = Idle
  /\ bars' = EmptyBag
  /\ classes' = {}

EngineInit ==
  /\ phase = "idle"
  /\ filtration = [points |-> {}, dist |-> <<>>]
  /\ params = <<>>
  /\ todo = {} /\ forest = NewForest({}) /\ active = {} /\ dim = 0
  /\ simplices = {} /\ columns = {} /\ pivots = <<>> /\ previous = {}
  /\ work = Idle /\ bars = EmptyBag /\ classes = {}

-----------------------------------------------------------------------------
(* Dimension 0 *)

\* UnionFind::find, the vertices up to the root, which then point to it.
PathUp(parent, v) ==
  LET up[u \in DOMAIN parent] ==
        IF parent[u] = u THEN <<u>> ELSE <<u>> \o up[parent[u]]
  IN  up[v]

RootOf(parent, v) == LET up == PathUp(parent, v) IN up[Len(up)]

Compressed(parent, v) ==
  LET up == PathUp(parent, v)
  IN  [u \in DOMAIN parent |-> IF u \in Range(up) THEN up[Len(up)] ELSE parent[u]]

\* UnionFind::link
Link(f, x, y) ==
  IF f.rank[x] < f.rank[y] THEN [f EXCEPT !.parent[x] = y]
  ELSE [parent |-> [f.parent EXCEPT ![y] = x],
        rank   |-> IF f.rank[x] = f.rank[y] THEN [f.rank EXCEPT ![x] = @ + 1]
                   ELSE f.rank]

\* Mutant of RowsWith: a block of rows may end inside a run of equal edges.
RowsWithOpenBlock(e) ==
  IF e \in active THEN active
  ELSE active \cup
         {f \in todo : Cardinality({h \in todo : ColumnBefore(filtration, f, h)}) < RowsBlock}

\* row_block_end, Rows::set: the next block, closed at a diameter boundary.
RowsWith(e) ==
  IF e \in active THEN active
  ELSE active \cup
         {f \in todo : Cardinality({h \in todo : filtration.dist[h] < filtration.dist[f]}) < RowsBlock}

\* is_dim0_column, pairs_edge
StartsColumn(e, rows) ==
  \/ ~params.apparent
  \/ IF params.rows THEN ~RowsPairEdge(filtration, rows, e)
     ELSE ApparentCofacet(filtration, e) = {}

\* walk_dim0_edges, walk_dim0_row_block, one edge: from the shortest up, and
\* of equal edges the one of largest index first.
WalkEdge ==
  /\ phase = "edges"
  /\ \E e \in todo :
       /\ \A f \in todo \ {e} : ColumnBefore(filtration, f, e)
       /\ todo' = todo \ {e}
       /\ active' = IF params.apparent /\ params.rows /\ params.maxDim > 0
                    THEN RowsWith(e) ELSE active
       /\ \E parent \in {Compressed(Compressed(forest.parent, Min(e)), Max(e))} :
            LET found == [forest EXCEPT !.parent = parent]
                ru    == RootOf(parent, Min(e))
                rv    == RootOf(parent, Max(e))
            IN  IF ru # rv
                THEN /\ forest' = Link(found, ru, rv)
                     /\ bars' = IF filtration.dist[e] > 0
                                THEN bars (+) OneBar(0, 0, filtration.dist[e]) ELSE bars
                     /\ columns' = columns
                ELSE /\ forest' = found
                     /\ bars' = bars
                     /\ columns' = IF params.maxDim > 0 /\ StartsColumn(e, active')
                                   THEN columns \cup {e} ELSE columns
  /\ UNCHANGED <<phase, filtration, params, dim, simplices, pivots, previous, work, classes>>

\* emit_essential_h0, then the first turn of the loop over dimensions.
FinishWalk ==
  /\ phase = "edges" /\ todo = {}
  /\ LET roots == {v \in filtration.points : forest.parent[v] = v}
     IN  bars' = bars (+) [b \in {Bar(0, 0, Infinite)} |-> Cardinality(roots)]
  /\ IF params.maxDim = 0
     THEN phase' = "done" /\ UNCHANGED <<dim, todo, simplices>>
     ELSE /\ phase' = "reduce"
          /\ dim' = 1
          /\ todo' = columns
          /\ simplices' = DOMAIN filtration.dist
  /\ UNCHANGED <<filtration, params, forest, active, columns, pivots, previous, work, classes>>

-----------------------------------------------------------------------------
(* Reduction of one dimension *)

Coboundary(c) ==
  LET rows == UNION {Cofacets(filtration, s) : s \in DOMAIN c}
      at(t) == MapThenSumSet(LAMBDA s : c[s] * IncidenceSign(s, t),
                             {s \in DOMAIN c : s \subseteq t}) % Modulus
  IN  [t \in {t \in rows : at(t) # 0} |-> at(t)]

\* emit_pair
PairBars(c, r) ==
  IF Diameter(filtration, r) > Diameter(filtration, c)
  THEN OneBar(dim, Diameter(filtration, c), Diameter(filtration, r)) ELSE EmptyBag

\* record_h1_class: alive from its birth to just below its death.  The edges
\* not above a terminal scale are all of them.
ClassBar(c, death) == [birth |-> Diameter(filtration, c), death |-> death]

PairClass(c, r, red) ==
  IF params.classes /\ dim = 1 /\ Diameter(filtration, r) > Diameter(filtration, c)
  THEN {[bar |-> ClassBar(c, Diameter(filtration, r)), critical |-> c,
         terms |-> AddScaled(UnitChain(c, 1), red, 1)]}
  ELSE {}

EssentialClass(c, red) ==
  IF params.classes /\ dim = 1
  THEN {[bar |-> ClassBar(c, Infinite), critical |-> c,
         terms |-> AddScaled(UnitChain(c, 1), red, 1)]}
  ELSE {}

RecordPair(c, r, coefficient, red) ==
  /\ bars' = bars (+) PairBars(c, r)
  /\ pivots' = pivots @@
       (r :> [column |-> c, coefficient |-> coefficient, v |-> red])
  /\ classes' = classes \cup PairClass(c, r, red)
  /\ work' = Idle

NextColumn == CHOOSE c \in todo : \A d \in todo \ {c} : ColumnBefore(filtration, c, d)

\* init_coboundary, check_emergent: only the first cofacet of equal diameter
\* is tried; it must not be a pivot, nor belong to its apparent facet.
Emergent(c) ==
  IF ~params.emergent THEN {}
  ELSE {t \in ZeroCofacet(filtration, c) \ DOMAIN pivots :
          params.apparent => ApparentFacet(filtration, t) = {}}

\* Mutant of EmergentCoefficient: the sign of the column in its cofacet is lost.
EmergentCoefficientUnsigned(c, t) == 1

EmergentCoefficient(c, t) == IncidenceSign(c, t)

\* init_coboundary, record_emergent
StartColumn ==
  /\ phase = "reduce" /\ ~IsWorking /\ todo # {}
  /\ LET c == NextColumn
     IN  /\ todo' = todo \ {c}
         /\ IF Emergent(c) # {}
            THEN LET t == CHOOSE t \in Emergent(c) : TRUE
                 IN  RecordPair(c, t, EmergentCoefficient(c, t), ZeroChain)
            ELSE /\ work' = [column |-> c, red |-> ZeroChain,
                             cob |-> CoboundaryOfSimplex(filtration, c)]
                 /\ UNCHANGED <<bars, pivots, classes>>
  /\ UNCHANGED <<phase, filtration, params, forest, active, dim, simplices, columns, previous>>

PivotSimplex == YoungestOf(filtration, DOMAIN work.cob)

\* add_simplex_coboundary of every term.
AddToColumn(chain) ==
  work' = [work EXCEPT !.red = AddScaled(@, chain, 1),
                       !.cob = AddScaled(@, Coboundary(chain), 1)]

\* fold_reducer: the column that owns the pivot, scaled to cancel it.
FoldReducer ==
  /\ IsWorking /\ work.cob # ZeroChain
  /\ PivotSimplex \in DOMAIN pivots
  /\ LET owner == pivots[PivotSimplex]
         own   == AddScaled(UnitChain(owner.column, 1), owner.v, 1)
     IN  AddToColumn(AddScaled(ZeroChain, own,
                               Factor(work.cob[PivotSimplex], owner.coefficient)))
  /\ UNCHANGED <<phase, filtration, params, todo, forest, active, dim, simplices,
                 columns, pivots, previous, bars, classes>>

\* Mutant of ApparentCoefficient: the sign of the facet is left out.
ApparentCoefficientUnsigned(f, p, k) == (-k) % Modulus

ApparentCoefficient(f, p, k) == (-(IncidenceSign(f, p) * k)) % Modulus

OwnApparentFacet(p) == IF params.apparent THEN ApparentFacet(filtration, p) ELSE {}

\* reduce_apparent_facet
FoldApparentFacet ==
  /\ IsWorking /\ work.cob # ZeroChain
  /\ PivotSimplex \notin DOMAIN pivots
  /\ \E f \in OwnApparentFacet(PivotSimplex) :
       AddToColumn(UnitChain(f, ApparentCoefficient(f, PivotSimplex, work.cob[PivotSimplex])))
  /\ UNCHANGED <<phase, filtration, params, todo, forest, active, dim, simplices,
                 columns, pivots, previous, bars, classes>>

\* record_paired_column
RecordPaired ==
  /\ IsWorking /\ work.cob # ZeroChain
  /\ PivotSimplex \notin DOMAIN pivots
  /\ OwnApparentFacet(PivotSimplex) = {}
  /\ RecordPair(work.column, PivotSimplex, work.cob[PivotSimplex], work.red)
  /\ UNCHANGED <<phase, filtration, params, todo, forest, active, dim, simplices,
                 columns, previous>>

IsPriorDeath(c) == ~params.clearing /\ c \in previous

\* record_zero_column
RecordZero ==
  /\ IsWorking /\ work.cob = ZeroChain
  /\ IF IsPriorDeath(work.column) THEN UNCHANGED <<bars, classes>>
     ELSE /\ bars' = bars (+) OneBar(dim, Diameter(filtration, work.column), Infinite)
          /\ classes' = classes \cup EssentialClass(work.column, work.red)
  /\ work' = Idle
  /\ UNCHANGED <<phase, filtration, params, todo, forest, active, dim, simplices,
                 columns, pivots, previous>>

\* assemble_chunk: each simplex once, from the facet without its top point.
NextSimplices ==
  UNION {{s \cup {v} : v \in {v \in Added(filtration, s) : v > Max(s)}} : s \in simplices}

\* cleared, or a half of an apparent pair.
Excluded(s) ==
  \/ params.clearing /\ s \in DOMAIN pivots
  \/ params.apparent /\ InApparentPair(filtration, s)

\* The end of one turn of the loop in Engine::run: assemble the columns of
\* the next dimension, unless this was the last.
NextDimension ==
  /\ phase = "reduce" /\ ~IsWorking /\ todo = {}
  /\ IF dim = params.maxDim
     THEN phase' = "done" /\ UNCHANGED <<dim, todo, simplices, pivots, previous>>
     ELSE /\ phase' = "reduce"
          /\ dim' = dim + 1
          /\ simplices' = NextSimplices
          /\ todo' = {s \in NextSimplices : ~Excluded(s)}
          /\ previous' = DOMAIN pivots
          /\ pivots' = <<>>
  /\ UNCHANGED <<filtration, params, forest, active, columns, work, bars, classes>>

EngineStep ==
  \/ WalkEdge
  \/ FinishWalk
  \/ StartColumn
  \/ FoldReducer
  \/ FoldApparentFacet
  \/ RecordPaired
  \/ RecordZero
  \/ NextDimension
=============================================================================
