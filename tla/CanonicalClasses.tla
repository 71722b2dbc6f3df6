--------------------------- MODULE CanonicalClasses ---------------------------
(***************************************************************************)
(* The canonical bases of the class spaces of H1 (holos-tda/src/classes):  *)
(* per interval, the recorded cocycles are freed of vertex coboundaries by *)
(* a potential along a breadth-first forest, brought to reduced row        *)
(* echelon form, and validated on the graph at their scale.                *)
(*                                                                         *)
(* A cocycle is a chain of edges, each oriented from its lower point.  The *)
(* graph at the scale of an interval holds the edges not above it.         *)
(***************************************************************************)
EXTENDS FlagFiltration, SequencesExt

\* Just below a death, which is an integer here; or every edge.
AtScale(g, bar) == IF bar.death = Infinite THEN g ELSE Within(g, bar.death - 1)

\* oriented_coefficient
Oriented(c, u, v) ==
  IF u < v THEN CoefficientOf(c, {u, v}) ELSE (-CoefficientOf(c, {u, v})) % Modulus

-----------------------------------------------------------------------------
(* gauge_potential: the forest is grown from the least point left, taking   *)
(* the neighbors of each point in order.                                    *)

Ascending(S) == [i \in 1 .. Cardinality(S) |-> CHOOSE v \in S : Position(v, S) = i - 1]

NextPotential(g, c, s) ==
  LET left == g.points \ DOMAIN s.potential
      u    == Head(s.queue)
      new  == {v \in left : {u, v} \in DOMAIN g.dist}
  IN  IF s.queue = <<>>
      THEN IF left = {} THEN s
           ELSE [queue |-> <<Min(left)>>, potential |-> s.potential @@ (Min(left) :> 0)]
      ELSE [queue     |-> Tail(s.queue) \o Ascending(new),
            potential |-> s.potential @@
              [v \in new |-> (s.potential[u] + Oriented(c, u, v)) % Modulus]]

Potential(g, c) ==
  LET after[n \in 0 .. 2 * Cardinality(g.points)] ==
        IF n = 0 THEN [queue |-> <<>>, potential |-> <<>>]
        ELSE LET before == after[n - 1] IN NextPotential(g, c, before)
  IN  after[2 * Cardinality(g.points)].potential

\* adjusted_edge_row, gauge_fixed_row: zero on the forest, and zero
\* everywhere exactly when the cocycle is a vertex coboundary.
GaugeFixed(g, c) ==
  LET p == Potential(g, c)
      at(e) == (CoefficientOf(c, e) + p[Min(e)] - p[Max(e)]) % Modulus
  IN  [e \in {e \in DOMAIN g.dist : at(e) # 0} |-> at(e)]

-----------------------------------------------------------------------------
(* canonical_space_basis: rows by their first edge, in the order in which   *)
(* the graph lists its edges.                                               *)

FirstListed(E) == CHOOSE e \in E : \A f \in E \ {e} : ListedBefore(e, f)

Scaled(c, k) == AddScaled(ZeroChain, c, k)

\* A row cleared at the pivots of rows, which are clear at each other's.
ClearedRow(rows, c) ==
  LET at(e) == CoefficientOf(c, e)
                 - MapThenSumSet(LAMBDA p : CoefficientOf(c, p) * CoefficientOf(rows[p], e),
                                 DOMAIN rows)
      all   == DOMAIN c \cup UNION {DOMAIN rows[p] : p \in DOMAIN rows}
  IN  [e \in {e \in all : at(e) % Modulus # 0} |-> at(e) % Modulus]

\* One more row: the others are cleared at its pivot.  A row that depends on
\* the others is refused by the code; here it adds nothing to the basis.
WithRow(rows, c) ==
  LET row   == ClearedRow(rows, c)
      pivot == FirstListed(DOMAIN row)
      unit  == Scaled(row, InverseMod(row[pivot]))
  IN  IF row = ZeroChain THEN rows
      ELSE [p \in DOMAIN rows |-> AddScaled(rows[p], unit, -CoefficientOf(rows[p], pivot))]
             @@ (pivot :> unit)

SpaceBasis(g, cocycles) ==
  LET rows == FoldSet(LAMBDA c, rows : WithRow(rows, GaugeFixed(g, c)), <<>>, cocycles)
  IN  {rows[p] : p \in DOMAIN rows}

-----------------------------------------------------------------------------
(* validate_h1_cocycle *)

TrianglesOf(g) == {t \in kSubset(3, g.points) : EdgesOf(t) \subseteq DOMAIN g.dist}

\* check_triangle_closure
IsClosed(g, c) ==
  \A t \in TrianglesOf(g) :
    MapThenSumSet(LAMBDA e : IncidenceSign(e, t) * CoefficientOf(c, e), EdgesOf(t))
      % Modulus = 0

\* is_vertex_coboundary
IsVertexCoboundary(g, c) == GaugeFixed(g, c) = ZeroChain

IsValidCocycle(g, c) == IsClosed(g, c) /\ ~IsVertexCoboundary(g, c)

\* canonical_space_basis of the cocycles [bar, terms] with one interval, and
\* whether canonical_spaces and merge_spaces keep it: the rank is the number
\* of intervals, and every row is a valid cocycle.
Space(g, seeds, bar) ==
  LET scale == AtScale(g, bar)
      own   == {seed \in seeds : seed.bar = bar}
      basis == SpaceBasis(scale, {Restrict(seed.terms, DOMAIN seed.terms \cap DOMAIN scale.dist)
                                    : seed \in own})
  IN  [bar   |-> bar,
       basis |-> basis,
       kept  |-> /\ Cardinality(basis) = Cardinality(own)
                 /\ \A c \in basis : IsValidCocycle(scale, c)]

Spaces(g, seeds) == {Space(g, seeds, bar) : bar \in {seed.bar : seed \in seeds}}
AllKept(spaces) == \A space \in spaces : space.kept

\* canonical_spaces: the recorded cocycles are validated as they are first.
RawValid(g, raw) ==
  \A r \in raw :
    LET scale == AtScale(g, r.bar)
    IN  IsValidCocycle(scale, Restrict(r.terms, DOMAIN r.terms \cap DOMAIN scale.dist))
=============================================================================
