------------------------ MODULE ReductionCertificate ------------------------
(***************************************************************************)
(* The checked reduction of one graph (holos-tda/src/certificate): a unit  *)
(* triangular change of basis V per dimension for which the boundary       *)
(* columns D V have distinct pivots.  It is built from nothing, repaired   *)
(* for new weights by keeping the longest prefix of columns that is still  *)
(* reduced, or reindexed as it stands.  Its region is the list of          *)
(* comparisons under which it is right: while they hold, the diagram is    *)
(* read off the recorded pairs with no reduction at all.                   *)
(*                                                                         *)
(* A simplex is the increasing sequence of its vertices.  A column is a    *)
(* function from the simplices of its rows to coefficients, and is kept    *)
(* under the simplex it belongs to, so that reindexing by simplex identity *)
(* is only a question of the new order.                                    *)
(***************************************************************************)
EXTENDS FlagFiltration

CONSTANT Threshold    \* edges above it are listed but not active

-----------------------------------------------------------------------------
(* The filtered complex of one weighted graph up to dimension two          *)
(* (certificate/reduction/complex.rs, and the checker's own                *)
(* holos-tda-check/src/program/reduction.rs): the listed edges within the  *)
(* threshold and the triangles they span, in filtration order.             *)

Infinity == Threshold + 1

\* The vertices of a weighting [edge |-> value] of the listed edges.
VerticesOf(w) == UNION {{<<e[1]>>, <<e[2]>>} : e \in DOMAIN w}

ActiveEdges(w) == {e \in DOMAIN w : w[e] <= Threshold}

Triangles(w) ==
  LET E == ActiveEdges(w)
  IN  {<<p[1][1], p[1][2], p[2][2]>> : p \in
         {p \in E \X E : p[1][2] = p[2][1] /\ <<p[1][1], p[2][2]>> \in E}}

Faces(s) ==
  IF Len(s) = 2 THEN {<<s[1]>>, <<s[2]>>}
  ELSE {<<s[1], s[2]>>, <<s[1], s[3]>>, <<s[2], s[3]>>}

SimplexValue(w, s) ==
  CASE Len(s) = 1 -> 0
    [] Len(s) = 2 -> w[s]
    [] Len(s) = 3 -> Max({w[e] : e \in Faces(s)})

\* edge_rank, triangle_rank: the position in colexicographic order.
Choose2(v) == (v * (v - 1)) \div 2
Choose3(v) == (v * (v - 1) * (v - 2)) \div 6

SimplexRank(s) ==
  CASE Len(s) = 1 -> s[1]
    [] Len(s) = 2 -> s[1] + Choose2(s[2])
    [] Len(s) = 3 -> s[1] + Choose2(s[2]) + Choose3(s[3])

\* The order of columns of one dimension: by value, then higher rank first.
Precedes(w, s, t) ==
  \/ SimplexValue(w, s) < SimplexValue(w, t)
  \/ /\ SimplexValue(w, s) = SimplexValue(w, t)
     /\ SimplexRank(s) > SimplexRank(t)

\* The position of every simplex of a set in filtration order, from 1; the
\* rows of the edges are the vertices by number.
Positions(w, S) ==
  [s \in S |-> 1 + Cardinality({t \in S : IF Len(s) = 1 THEN t[1] < s[1]
                                                        ELSE Precedes(w, t, s)})]

\* FilteredComplex::build: per dimension, the positions of its simplices.
Complex(w) ==
  [vertices  |-> Positions(w, VerticesOf(w)),
   edges     |-> Positions(w, ActiveEdges(w)),
   triangles |-> Positions(w, Triangles(w))]

-----------------------------------------------------------------------------
(* Columns *)

UnitColumn(rows, s) == [r \in rows |-> IF r = s THEN 1 ELSE 0]
Support(col) == {r \in DOMAIN col : col[r] # 0}

AddScaledColumn(col, source, factor) ==
  [r \in DOMAIN col |-> (col[r] + factor * source[r]) % Modulus]

\* The last row of a column that is not zero.
Pivot(pos, col) ==
  CHOOSE r \in Support(col) : \A q \in Support(col) : pos[q] <= pos[r]

\* edge_boundaries, triangle_boundaries: the sign of a face, 0 off the faces.
Incidence(s, r) ==
  CASE r \notin Faces(s) -> 0
    [] Len(s) = 2 -> IF r[1] = s[2] THEN 1 ELSE Modulus - 1
    [] Len(s) = 3 -> IF r = <<s[1], s[3]>> THEN Modulus - 1 ELSE 1

Boundary(rows, s) == [r \in rows |-> Incidence(s, r)]

-----------------------------------------------------------------------------
(* Reduction of one dimension: rows and cols map simplices to positions.   *)

\* One legal column of V: no term after its own column, and 1 there.
UnitTriangular(cols, s, v) ==
  /\ v[s] = 1
  /\ \A t \in Support(v) : t \in DOMAIN cols /\ cols[t] <= cols[s]

\* The boundary column that a column of V stands for.
ReducedColumn(rows, v) ==
  [r \in DOMAIN rows |->
     MapThenSumSet(LAMBDA t : v[t] * Incidence(t, r), Support(v)) % Modulus]

\* Its pivot, or nothing when it is zero.
PivotOf(rows, v) ==
  LET R == ReducedColumn(rows, v)
      last == {r \in Support(R) : \A q \in Support(R) : rows[q] <= rows[r]}
  IN  last

\* ReductionState: the columns so far, and the additions they took.
NoColumns == [reduced |-> <<>>, basis |-> <<>>, additions |-> 0]

WithColumn(state, s, col, v, more) ==
  [reduced   |-> [t \in DOMAIN state.reduced \cup {s} |->
                    IF t = s THEN col ELSE state.reduced[t]],
   basis     |-> [t \in DOMAIN state.basis \cup {s} |->
                    IF t = s THEN v ELSE state.basis[t]],
   additions |-> state.additions + more]

Owners(rows, reduced, pivot) ==
  {t \in DOMAIN reduced : Support(reduced[t]) # {} /\ Pivot(rows, reduced[t]) = pivot}

\* ReductionState::reduce, one turn of the loop: the pivot is cancelled by the
\* column that owns it.
Cancelled(rows, state, done, t) ==
  LET pivot   == Pivot(rows, done.col)
      inverse == InverseMod(state.reduced[t][pivot])
      factor  == (-(done.col[pivot] * inverse)) % Modulus
  IN  [col |-> AddScaledColumn(done.col, state.reduced[t], factor),
       v   |-> AddScaledColumn(done.v, state.basis[t], factor),
       additions |-> done.additions + 1]

\* The loop: it ends when the pivot has no owner, and each turn lowers it.
Reduce(rows, cols, state, s) ==
  LET after[n \in 0 .. Cardinality(DOMAIN rows)] ==
        IF n = 0
        THEN [col |-> Boundary(DOMAIN rows, s), v |-> UnitColumn(DOMAIN cols, s), additions |-> 0]
        ELSE LET done  == after[n - 1]
                 owner == IF Support(done.col) = {} THEN {}
                          ELSE Owners(rows, state.reduced, Pivot(rows, done.col))
             IN  IF owner = {} THEN done
                 ELSE Cancelled(rows, state, done, CHOOSE t \in owner : TRUE)
      last == after[Cardinality(DOMAIN rows)]
  IN  WithColumn(state, s, last.col, last.v, last.additions)

At(cols, n) == CHOOSE s \in DOMAIN cols : cols[s] = n

\* reduce_with_prefix: n columns are kept from prefix, the others reduced.
ReduceWithPrefix(rows, cols, prefix, n) ==
  LET after[k \in 0 .. Cardinality(DOMAIN cols)] ==
        IF k = 0 THEN NoColumns
        ELSE LET s == At(cols, k)
             IN  IF k <= n
                 THEN WithColumn(after[k - 1], s, ReducedColumn(rows, prefix[s]), prefix[s], 0)
                 ELSE Reduce(rows, cols, after[k - 1], s)
  IN  after[Cardinality(DOMAIN cols)]

ReduceWithBasis(rows, cols) == ReduceWithPrefix(rows, cols, <<>>, 0)

\* check_matrix on the columns S: each is unit triangular and no two of
\* them share a pivot.
MatrixChecks(rows, cols, V, S) ==
  /\ \A s \in S : UnitTriangular(cols, s, V[s])
  /\ LET owned == {<<s, PivotOf(rows, V[s])>> : s \in S}
     IN  \A a, b \in owned : a[1] # b[1] => a[2] \cap b[2] = {}

FirstColumns(cols, n) == {s \in DOMAIN cols : cols[s] <= n}

\* Mutant of PrefixLength: a pivot that is taken does not end the prefix.
PrefixLengthByOrder(rows, cols, V) ==
  Max({n \in 0 .. Cardinality(DOMAIN cols) :
         \A s \in FirstColumns(cols, n) : UnitTriangular(cols, s, V[s])})

\* reindexed_prefix_candidates and valid_reduction_prefix_len.
PrefixLength(rows, cols, V) ==
  Max({n \in 0 .. Cardinality(DOMAIN cols) :
         MatrixChecks(rows, cols, V, FirstColumns(cols, n))})

-----------------------------------------------------------------------------
(* Certificates: the change of basis of both dimensions. *)

Build(w) ==
  LET K == Complex(w)
  IN  [edges     |-> ReduceWithBasis(K.vertices, K.edges).basis,
       triangles |-> ReduceWithBasis(K.edges, K.triangles).basis]

\* repair: each dimension by itself, with the work it took.
RepairCertificate(w, cert) ==
  LET K  == Complex(w)
      ne == PrefixLength(K.vertices, K.edges, cert.edges)
      nt == PrefixLength(K.edges, K.triangles, cert.triangles)
      e  == ReduceWithPrefix(K.vertices, K.edges, cert.edges, ne)
      t  == ReduceWithPrefix(K.edges, K.triangles, cert.triangles, nt)
  IN  [cert |-> [edges |-> e.basis, triangles |-> t.basis],
       work |-> [reused    |-> ne + nt,
                 reduced   |-> Cardinality(DOMAIN K.edges) - ne
                                 + Cardinality(DOMAIN K.triangles) - nt,
                 additions |-> e.additions + t.additions]]

\* check_reductions: both matrices have a column for every simplex, and check.
\* build, repair and reindex end with it.
ReductionsCheck(w, cert) ==
  LET K == Complex(w)
  IN  /\ DOMAIN cert.edges = DOMAIN K.edges
      /\ DOMAIN cert.triangles = DOMAIN K.triangles
      /\ MatrixChecks(K.vertices, K.edges, cert.edges, DOMAIN K.edges)
      /\ MatrixChecks(K.edges, K.triangles, cert.triangles, DOMAIN K.triangles)

Cycles(K, cert) == {e \in DOMAIN K.edges : PivotOf(K.vertices, cert.edges[e]) = {}}

\* h1_pairs: an edge whose column is zero, with the triangle whose column
\* has its pivot there, if there is one.
Pairs(w, cert) ==
  LET K == Complex(w)
      killed == {<<PivotOf(K.edges, cert.triangles[t]), t>> : t \in DOMAIN K.triangles}
  IN  {[birth |-> e, death |-> {k[2] : k \in {k \in killed : e \in k[1]}}]
         : e \in Cycles(K, cert)}

\* h0_deaths: the edges that join two components.
Joins(w, cert) ==
  LET K == Complex(w) IN DOMAIN K.edges \ Cycles(K, cert)

-----------------------------------------------------------------------------
(* Bars of recorded pairs at some weights *)

Interval(w, pair) ==
  [birth |-> w[pair.birth],
   death |-> IF pair.death = {} THEN Infinity
             ELSE SimplexValue(w, CHOOSE t \in pair.death : TRUE)]

\* Pairs whose bar is not empty.
Critical(w, pairs) ==
  {p \in pairs : Interval(w, p).death > Interval(w, p).birth}

\* The multiset of bars: how many pairs have each interval, and how many
\* joins happen at each value.
Bars(w, pairs, joins) ==
  [h1 |-> [b \in {Interval(w, p) : p \in Critical(w, pairs)} |->
             Cardinality({p \in Critical(w, pairs) : Interval(w, p) = b})],
   h0 |-> [v \in {w[e] : e \in joins} \ {0} |->
             Cardinality({e \in joins : w[e] = v})],
   essential |-> Cardinality(VerticesOf(w)) - Cardinality(joins)]

CertifiedDiagram(w, cert) == Bars(w, Pairs(w, cert), Joins(w, cert))

-----------------------------------------------------------------------------
(* Regions *)

\* add_change_guards: a column's terms stay before it.
ChangeGuards(V) ==
  UNION {{<<t, s>> : t \in Support(V[s]) \ {s}} : s \in DOMAIN V}

\* add_pivot_guards: a triangle column's rows stay before its pivot.
PivotGuards(w, cert) ==
  LET K == Complex(w)
  IN  UNION {LET R == ReducedColumn(K.edges, cert.triangles[t])
             IN  (Support(R) \X PivotOf(K.edges, cert.triangles[t]))
                   \ {<<r, r>> : r \in Support(R)} : t \in DOMAIN K.triangles}

CompleteGuards(w, cert) ==
  ChangeGuards(cert.edges) \cup ChangeGuards(cert.triangles) \cup PivotGuards(w, cert)

\* Nodes reached from some along guards, each time by one guard more.
ReachedBy(guards, nodes) ==
  LET reached[n \in 0 .. Cardinality(guards)] ==
        IF n = 0 THEN nodes
        ELSE LET before == reached[n - 1]
             IN  before \cup {g[2] : g \in {g \in guards : g[1] \in before}}
  IN  reached[Cardinality(guards)]

\* Mutant of Alternate: two guards with the same end imply each other.
AlternateByEnd(guards, g) == \E h \in guards : h[2] = g[2] /\ h # g

\* A path of other guards from the start to the end of a guard.
Alternate(guards, g) ==
  LET first == {h[2] : h \in {h \in guards : h[1] = g[1]}} \ {g[2]}
  IN  g[2] \in ReachedBy(guards, first)

\* minimize_guards: the guards that no path of others implies.
MinimizeGuards(guards) == {g \in guards : ~Alternate(guards, g)}

\* compile_region.
CompileRegion(w, cert) ==
  [guards |-> MinimizeGuards(CompleteGuards(w, cert)),
   active |-> ActiveEdges(w),
   listed |-> DOMAIN w,
   pairs  |-> Pairs(w, cert),
   joins  |-> Joins(w, cert)]

GuardHolds(w, g) == Precedes(w, g[1], g[2])

\* violations is empty: same listed edges, same threshold membership, and
\* every guard.
Accepts(region, w) ==
  /\ DOMAIN w = region.listed
  /\ ActiveEdges(w) = region.active
  /\ \A g \in region.guards : GuardHolds(w, g)

\* evaluate: the recorded pairs at the new weights.
Evaluate(region, w) == Bars(w, region.pairs, region.joins)
=============================================================================
