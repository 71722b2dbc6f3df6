------------------------------ MODULE RipsOracle ------------------------------
(***************************************************************************)
(* Textbook persistence (holos-tda/src/oracle.rs): every simplex up to one *)
(* dimension above the largest asked for, in a simplexwise order of the    *)
(* filtration, and the boundary matrix reduced from left to right.  It     *)
(* shares only the arithmetic of a chain with the engine.                  *)
(***************************************************************************)
EXTENDS FlagFiltration, Bags, TLC

\* oracle_simplices
OracleSimplices(g, maxDim) ==
  LET size == Min({maxDim + 2, Cardinality(g.points)})
      all  == UNION {kSubset(k, g.points) : k \in 1 .. size}
  IN  {s \in all : EdgesOf(s) \subseteq DOMAIN g.dist}

\* By diameter, then dimension, then the list of vertices.
OracleBefore(g, s, t) ==
  LET a == Diameter(g, s)
      b == Diameter(g, t)
  IN  \/ a < b
      \/ a = b /\ Cardinality(s) < Cardinality(t)
      \/ a = b /\ Cardinality(s) = Cardinality(t) /\ s # t /\ Min(SymDiff(s, t)) \in s

\* boundary_columns
BoundaryOf(s) ==
  IF Cardinality(s) = 1 THEN ZeroChain
  ELSE [f \in Facets(s) |-> IncidenceSign(f, s)]

\* reduce_columns, one column: add the reduced column that owns the low.
RECURSIVE ReduceColumn(_, _, _)
ReduceColumn(position, owners, col) ==
  IF col = ZeroChain THEN col
  ELSE LET low == CHOOSE s \in DOMAIN col : \A t \in DOMAIN col : position[t] <= position[s]
       IN  IF low \notin DOMAIN owners THEN col
           ELSE ReduceColumn(position, owners,
                  AddScaled(col, owners[low].col,
                            Factor(col[low], owners[low].col[low])))

\* reduce_columns from column n on: low -> the column that owns it.
RECURSIVE ReduceColumns(_, _, _)
ReduceColumns(position, n, owners) ==
  IF n > Cardinality(DOMAIN position) THEN owners
  ELSE LET s   == CHOOSE s \in DOMAIN position : position[s] = n
           col == ReduceColumn(position, owners, BoundaryOf(s))
           low == CHOOSE r \in DOMAIN col : \A t \in DOMAIN col : position[t] <= position[r]
       IN  ReduceColumns(position, n + 1,
             IF col = ZeroChain THEN owners
             ELSE owners @@ (low :> [simplex |-> s, col |-> col]))

\* oracle_diagram, as [dim, birth, death] for every simplex that starts one.
OracleIntervals(g, maxDim) ==
  LET S        == OracleSimplices(g, maxDim)
      position == [s \in S |-> 1 + Cardinality({t \in S : OracleBefore(g, t, s)})]
      owners   == ReduceColumns(position, 1, <<>>)
      deaths   == {owners[r].simplex : r \in DOMAIN owners}
      births   == {s \in S \ deaths : Cardinality(s) - 1 <= maxDim}
  IN  [s \in births |->
         [dim   |-> Cardinality(s) - 1,
          birth |-> Diameter(g, s),
          death |-> IF s \in DOMAIN owners
                    THEN Diameter(g, owners[s].simplex) ELSE Infinite]]

\* The intervals of some length, with their multiplicities.
BarsOfIntervals(intervals) ==
  [b \in {b \in Range(intervals) : b.death # b.birth} |->
     Cardinality({s \in DOMAIN intervals : intervals[s] = b})]

OracleBars(g, maxDim) == BarsOfIntervals(OracleIntervals(g, maxDim))
=============================================================================
