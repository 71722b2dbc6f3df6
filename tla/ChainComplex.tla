---------------------------- MODULE ChainComplex ----------------------------
(***************************************************************************)
(* A filtered chain complex and the reduction of its boundary by a change  *)
(* of basis (holos-tda/src/graded_certificate, the reduction of            *)
(* holos-tda/src/relative_interface, and their replays in holos-tda-check: *)
(* index/graded.rs and relative/reduction.rs).                             *)
(*                                                                         *)
(* A complex maps each cell, its set of points, to [value, boundary].  A   *)
(* reduction maps each cell of positive dimension to its change column, a  *)
(* chain.  A rank numbers the cells of each dimension, the rows and        *)
(* columns of the matrices.                                                *)
(***************************************************************************)
EXTENDS RipsOracle, SequencesExt

CONSTANT MaxDim      \* RipsParams::max_dim

ASSUME DimensionAssumption == MaxDim \in Nat

Dimension(s) == Cardinality(s) - 1

\* What a checked construction returns when it refuses.
Refused == [kind |-> "refused"]
NoComplex == <<>>

PositiveCells(K) == {s \in DOMAIN K : Dimension(s) > 0}

\* simplex_boundary
SimplexBoundary(s) ==
  IF Dimension(s) = 0 THEN ZeroChain
  ELSE [f \in Facets(s) |-> IncidenceSign(f, s)]

\* GradedComplex::build, from_flag_graph: the simplices of a graph through
\* dimension MaxDim + 1.
FlagCells(g) ==
  LET sizes == 1 .. Min({MaxDim + 2, Cardinality(g.points)})
      cells == {s \in UNION {kSubset(k, g.points) : k \in sizes} :
                  EdgesOf(s) \subseteq DOMAIN g.dist}
  IN  [s \in cells |-> [value |-> Diameter(g, s), boundary |-> SimplexBoundary(s)]]

\* cell_order: by value, then the larger list of points read from the top.
CellBefore(K, s, t) ==
  \/ K[s].value < K[t].value
  \/ K[s].value = K[t].value /\ IndexBelow(t, s)

Rank(K) ==
  [s \in DOMAIN K |->
     Cardinality({t \in DOMAIN K : Dimension(t) = Dimension(s) /\ CellBefore(K, t, s)})]

\* simplex_rows: the points of a graded complex keep their own order.
GradedRank(K) ==
  LET rank == Rank(K)
  IN  [s \in DOMAIN K |->
         IF Dimension(s) > 0 THEN rank[s]
         ELSE Cardinality({t \in DOMAIN K : Dimension(t) = 0 /\ IndexBelow(t, s)})]

\* check_chain_complex: every boundary is a chain of cells that enter before
\* its cell, and the boundary of a boundary is zero.
BoundaryOfChain(K, c) ==
  FoldSet(LAMBDA s, sum : AddScaled(sum, K[s].boundary, c[s]), ZeroChain, DOMAIN c)

IsChainComplex(K) ==
  \A s \in DOMAIN K :
    /\ \A f \in DOMAIN K[s].boundary :
         /\ f \in DOMAIN K
         /\ Dimension(f) = Dimension(s) - 1
         /\ K[s].boundary[f] \in 1 .. Modulus - 1
         /\ K[f].value <= K[s].value
    /\ BoundaryOfChain(K, K[s].boundary) = ZeroChain

-----------------------------------------------------------------------------
(* The reduction *)

\* SparseColumn::pivot
PivotOf(rank, c) == CHOOSE s \in DOMAIN c : \A t \in DOMAIN c : rank[t] <= rank[s]

\* GradedReductionState, keyed by cells: the reduced columns, their change
\* columns and the column that owns each pivot.
NothingReduced == [reduced |-> <<>>, basis |-> <<>>, owner |-> <<>>]

WithColumn(rank, R, s, column, basis) ==
  [reduced |-> R.reduced @@ (s :> column),
   basis   |-> R.basis @@ (s :> basis),
   owner   |-> IF column = ZeroChain THEN R.owner
               ELSE R.owner @@ (PivotOf(rank, column) :> s)]

\* GradedReductionState::reduce, reduce_matrix: the additions to one column.
RECURSIVE Eliminated(_, _, _, _)
Eliminated(rank, R, column, basis) ==
  IF column = ZeroChain \/ PivotOf(rank, column) \notin DOMAIN R.owner
  THEN [column |-> column, basis |-> basis]
  ELSE LET pivot  == PivotOf(rank, column)
           owner  == R.owner[pivot]
           factor == Factor(column[pivot], R.reduced[owner][pivot])
       IN  Eliminated(rank, R, AddScaled(column, R.reduced[owner], factor),
                      AddScaled(basis, R.basis[owner], factor))

\* reduce_with_prefix: the kept change columns are retained, the rest reduced.
Reduction(K, rank, kept) ==
  LET before(s, t) == \/ Dimension(s) < Dimension(t)
                      \/ Dimension(s) = Dimension(t) /\ rank[s] < rank[t]
      cells == SortSeq(FoldSet(LAMBDA s, q : Append(q, s), <<>>, PositiveCells(K)), before)
      step(R, s) ==
        LET new == IF s \in DOMAIN kept
                   THEN [column |-> BoundaryOfChain(K, kept[s]), basis |-> kept[s]]
                   ELSE Eliminated(rank, R, K[s].boundary, UnitChain(s, 1))
        IN  WithColumn(rank, R, s, new.column, new.basis)
  IN  FoldLeft(step, NothingReduced, cells).basis

\* validate_change_column, check_unit_triangular with check_change_term.
UnitTriangular(rank, s, c) ==
  /\ CoefficientOf(c, s) = 1
  /\ \A t \in DOMAIN c : /\ Dimension(t) = Dimension(s)
                         /\ rank[t] <= rank[s]
                         /\ c[t] \in 1 .. Modulus - 1

ReducedColumns(K, columns) == [s \in DOMAIN columns |-> BoundaryOfChain(K, columns[s])]

\* The pivot of each column that is not zero.
Pivots(rank, reduced) ==
  [s \in {s \in DOMAIN reduced : reduced[s] # ZeroChain} |-> PivotOf(rank, reduced[s])]

\* check_matrix, check_reduction
IsReduction(K, rank, columns) ==
  /\ DOMAIN columns = PositiveCells(K)
  /\ \A s \in DOMAIN columns : UnitTriangular(rank, s, columns[s])
  /\ IsInjective(Pivots(rank, ReducedColumns(K, columns)))

\* check_all, diagram_from_reduction: the bars of a reduction.
DeathOf(K, pivots, s) ==
  LET killers == {t \in DOMAIN pivots : pivots[t] = s}
  IN  IF killers = {} THEN Infinite ELSE K[CHOOSE t \in killers : TRUE].value

IntervalsOf(K, pivots) ==
  [s \in {s \in DOMAIN K \ DOMAIN pivots : Dimension(s) <= MaxDim} |->
     [dim |-> Dimension(s), birth |-> K[s].value, death |-> DeathOf(K, pivots, s)]]

BarsOf(K, rank, columns) ==
  BarsOfIntervals(IntervalsOf(K, Pivots(rank, ReducedColumns(K, columns))))

-----------------------------------------------------------------------------
(* The certificate of one filtered flag complex *)

\* GradedReductionCertificate: the graph it is bound to holds the active
\* edges only.
Certificate(g, columns) ==
  LET K    == FlagCells(g)
      rank == GradedRank(K)
  IN  IF IsReduction(K, rank, columns)
      THEN [kind |-> "materialized", graph |-> g, columns |-> columns,
            diagram |-> BarsOf(K, rank, columns)]
      ELSE Refused

\* What is built from a graph is compared with the engine's diagram of it.
AsEngine(g, c) == IF c = Refused \/ c.diagram # OracleBars(g, MaxDim) THEN Refused ELSE c

\* GradedReductionCertificate::build
Built(g) ==
  LET K == FlagCells(g)
  IN  AsEngine(g, Certificate(g, Reduction(K, GradedRank(K), <<>>)))

\* Mutant of KeptColumns: the pivots of the prefix are not compared.
KeptWithoutPivots(K, rank, columns) ==
  LET upTo(s)  == {t \in DOMAIN columns : Dimension(t) = Dimension(s) /\ rank[t] <= rank[s]}
      fits(s)  == \A t \in upTo(s) : UnitTriangular(rank, t, columns[t])
  IN  Restrict(columns, {s \in DOMAIN columns : fits(s)})

\* reindexed_prefix_candidates and valid_prefix_len: of each dimension, the
\* longest prefix in the new order that is unit triangular with distinct pivots.
KeptColumns(K, rank, columns) ==
  LET pivots  == Pivots(rank, ReducedColumns(K, columns))
      upTo(s) == {t \in DOMAIN columns : Dimension(t) = Dimension(s) /\ rank[t] <= rank[s]}
      fits(s) == /\ \A t \in upTo(s) : UnitTriangular(rank, t, columns[t])
                 /\ IsInjective(Restrict(pivots, upTo(s) \cap DOMAIN pivots))
  IN  Restrict(columns, {s \in DOMAIN columns : fits(s)})

\* GradedReductionCertificate::repair.  require_fixed_envelope: the active
\* edges are the same; the old certificate is verified first.
Repaired(certificate, old, new) ==
  LET K    == FlagCells(new)
      rank == GradedRank(K)
  IN  IF \/ certificate.graph # old
         \/ Certificate(old, certificate.columns) # certificate
         \/ DOMAIN old.dist # DOMAIN new.dist
      THEN Refused
      ELSE Certificate(new, Reduction(K, rank, KeptColumns(K, rank, certificate.columns)))
=============================================================================
