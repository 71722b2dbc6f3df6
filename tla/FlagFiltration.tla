--------------------------- MODULE FlagFiltration ---------------------------
(***************************************************************************)
(* The filtered flag complex of a weighted graph, as the reduction engine  *)
(* sees it (holos-tda/src/reduce/pairing.rs and coboundary.rs, with the    *)
(* enumerators of combinadic.rs and distances/cofacet and the arithmetic   *)
(* of field.rs).                                                           *)
(*                                                                         *)
(* A graph is [points, dist]; dist maps each edge, a set of two points, to *)
(* its value, and an edge above the threshold is not in it.  A simplex is  *)
(* its set of points, a chain a function from the simplices where it is    *)
(* not zero to coefficients.                                               *)
(***************************************************************************)
EXTENDS Integers, FiniteSets, Sequences, FiniteSetsExt, Functions

CONSTANT Modulus      \* the prime of the coefficients (field.rs)

ASSUME FieldAssumption ==
  /\ Modulus \in Nat \ {0, 1}
  /\ \A k \in 2 .. Modulus - 1 : Modulus % k # 0

InverseMod(k) == CHOOSE x \in 1 .. Modulus - 1 : (x * k) % Modulus = 1

\* Coeffs::factor, -(pivot / other).
Factor(pivot, other) == (-(pivot * InverseMod(other))) % Modulus

\* f64::INFINITY: a death above every value.
Infinite == 1000

EdgesOf(s) == kSubset(2, s)

Within(g, t) ==
  [g EXCEPT !.dist = Restrict(@, {e \in DOMAIN @ : @[e] <= t})]

\* Distances::for_each_edge, diameter: 0 for a vertex.
Diameter(g, s) == Max({0} \cup {g.dist[e] : e \in EdgesOf(s)})

\* BinomialTable: the index of a simplex compares the largest vertices first.
IndexBelow(s, t) == s # t /\ Max(SymDiff(s, t)) \in t

Youngest(S) == CHOOSE s \in S : \A t \in S \ {s} : IndexBelow(t, s)
Oldest(S)   == CHOOSE s \in S : \A t \in S \ {s} : IndexBelow(s, t)

\* Edges and separators by the list of their points.
ListedBefore(S, T) == S # T /\ Min(SymDiff(S, T)) \in S

\* The components of the points V under the edges E, joined edge by edge.
Joined(parts, e) ==
  {P \in parts : P \cap e = {}} \cup {UNION {P \in parts : P \cap e # {}}}

Components(V, E) == FoldSet(LAMBDA e, parts : Joined(parts, e), {{v} : v \in V}, E)

\* CofacetIter: the points joined to all of a simplex.
Added(g, s) == {v \in g.points \ s : \A u \in s : {u, v} \in DOMAIN g.dist}
Cofacets(g, s) == {s \cup {v} : v \in Added(g, s)}
Facets(t) == {t \ {v} : v \in t}

\* The position of a vertex among those of a simplex, and its sign.
Position(v, s) == Cardinality({u \in s : u < v})
Sign(k) == IF k % 2 = 0 THEN 1 ELSE Modulus - 1
IncidenceSign(s, t) == Sign(Position(CHOOSE v \in t : v \notin s, s))

-----------------------------------------------------------------------------
(* Zero-apparent pairs: a facet and a cofacet of equal diameter, each the   *)
(* first such partner of the other.                                         *)

\* zero_pivot_cofacet_with: the youngest of equal diameter, if any.
ZeroCofacet(g, s) ==
  LET equal == {c \in Cofacets(g, s) : Diameter(g, c) = Diameter(g, s)}
  IN  IF equal = {} THEN {} ELSE {Youngest(equal)}

\* zero_pivot_facet_with: vertices are dropped from the top, so the facet of
\* least index comes first.
ZeroFacet(g, t) ==
  LET equal == {f \in Facets(t) : Diameter(g, f) = Diameter(g, t)}
  IN  IF equal = {} THEN {} ELSE {Oldest(equal)}

\* zero_apparent with Pairing::Cofacet; a vertex added on top is not tested.
ApparentCofacet(g, s) ==
  {c \in ZeroCofacet(g, s) : Max(c) \notin s \/ s \in ZeroFacet(g, c)}

\* zero_apparent with Pairing::Facet.
ApparentFacet(g, t) == {f \in ZeroFacet(g, t) : t \in ZeroCofacet(g, f)}

\* is_in_zero_apparent_pair
InApparentPair(g, s) == ApparentCofacet(g, s) \cup ApparentFacet(g, s) # {}

\* Rows::pairs_edge: the same test of an edge on the activation rows.
RowsPairEdge(g, active, e) ==
  LET u == Min(e)
      v == Max(e)
      d == g.dist[e]
      common == {w \in g.points \ e : /\ {{u, w}, {v, w}} \subseteq active
                                      /\ g.dist[{u, w}] <= d
                                      /\ g.dist[{v, w}] <= d}
      w == Max(common)
  IN  /\ common # {}
      /\ \/ w > v
         \/ /\ g.dist[{u, w}] < d
            /\ w > u \/ g.dist[{v, w}] < d

-----------------------------------------------------------------------------
(* Chains and the coboundary *)

ZeroChain == <<>>
UnitChain(s, k) == [t \in {s} |-> k]
CoefficientOf(c, s) == IF s \in DOMAIN c THEN c[s] ELSE 0

AddScaled(c, d, k) ==
  LET sum(s) == (CoefficientOf(c, s) + k * CoefficientOf(d, s)) % Modulus
  IN  [s \in {s \in DOMAIN c \cup DOMAIN d : sum(s) # 0} |-> sum(s)]

\* build_full_coboundary, add_coboundary_with: the coboundary of one simplex.
CoboundaryOfSimplex(g, s) == [t \in Cofacets(g, s) |-> IncidenceSign(s, t)]

\* pop_pivot: least diameter, then largest index.
YoungestOf(g, S) ==
  LET least == Min({Diameter(g, s) : s \in S})
  IN  Youngest({s \in S : Diameter(g, s) = least})

\* edge_key, column_order: from the largest diameter down, then by index.
ColumnBefore(g, s, t) ==
  \/ Diameter(g, s) > Diameter(g, t)
  \/ Diameter(g, s) = Diameter(g, t) /\ IndexBelow(s, t)
=============================================================================
