----------------------------- MODULE CollapseGraph -----------------------------
(****************************************************************************)
(* The weighted graph of an edge collapse and the edge test that every      *)
(* schedule shares (collapse/preparation.rs, collapse/domination.rs).       *)
(*                                                                          *)
(* An input is a function from pairs <<u, v>> with u < v to 1 .. MaxLevel:  *)
(* the distances that occur, in order, so that only comparisons matter.     *)
(* The edges of a run are a sequence in schedule order; a graph during the  *)
(* run is the set of the positions of its live edges.  A position counts    *)
(* from 1.  The code keeps a dead edge in the adjacency lists with an       *)
(* infinite distance: it is no neighbour but still has length there.        *)
(****************************************************************************)
EXTENDS Integers, FiniteSets, Sequences, TLC, FiniteSetsExt

CONSTANTS
  NumVertices,   \* the points are 0 .. NumVertices - 1
  MaxLevel,      \* the number of distinct distances
  MarkLimit      \* MARK_LIMIT: the largest neighbourhood marked edge by edge

ASSUME GraphAssumption ==
  /\ NumVertices \in Nat
  /\ MaxLevel \in Nat \ {0}
  /\ MarkLimit \in Nat

Vertices == 0 .. NumVertices - 1
Pairs    == {p \in Vertices \X Vertices : p[1] < p[2]}
Level    == 1 .. MaxLevel
Infinity == MaxLevel + 1
Edge     == [u : Vertices, v : Vertices, value : Level]

-----------------------------------------------------------------------------
\* The schedule order: larger distances first, equal ones by (v, u).
Before(e, f) ==
  \/ e.value > f.value
  \/ e.value = f.value /\ e.v < f.v
  \/ e.value = f.value /\ e.v = f.v /\ e.u < f.u

InputEdges(input) ==
  {[u |-> p[1], v |-> p[2], value |-> input[p]] : p \in DOMAIN input}

\* How many edges come before an edge in the schedule.
Earlier(all, e) == Cardinality({f \in all : Before(f, e)})

\* The edges of an input, in schedule order.
Prepared(input) ==
  LET all  == InputEdges(input)
      turn == [e \in all |-> Earlier(all, e)]
  IN  [n \in 1 .. Cardinality(all) |-> CHOOSE e \in all : turn[e] = n - 1]

-----------------------------------------------------------------------------
Ends(e) == {e.u, e.v}

\* The distances of a graph: 0 on the diagonal, infinite without a live edge.
Distances(edges, live) ==
  LET joining(x, y) == {i \in live : Ends(edges[i]) = {x, y}}
  IN  [p \in Vertices \X Vertices |->
         IF p[1] = p[2] THEN 0
         ELSE IF joining(p[1], p[2]) = {} THEN Infinity
         ELSE edges[CHOOSE i \in joining(p[1], p[2]) : TRUE].value]

Common(dist, e) ==
  {x \in Vertices \ Ends(e) : dist[<<e.u, x>>] < Infinity /\ dist[<<e.v, x>>] < Infinity}

\* The common neighbours of an edge, each with the level at which it and the
\* edge span a triangle.
Candidates(dist, e) ==
  [x \in Common(dist, e) |-> Max({e.value, dist[<<e.u, x>>], dist[<<e.v, x>>]})]

\* The candidates that are within level t of every candidate present at t.
Dominating(dist, birth, t) ==
  LET present == {x \in DOMAIN birth : birth[x] <= t}
  IN  {w \in present : \A x \in present : dist[<<w, x>>] <= t}

\* The distances among the candidates, the rows that the sweep reads.
Among(dist, birth) == [p \in (DOMAIN birth) \X (DOMAIN birth) |-> dist[p]]

\* The witness segments over the rising levels: an apex is kept while it
\* reaches every new candidate, otherwise the first dominating candidate
\* takes over.  ok is FALSE once a level has none.
Segments(dist, birth) ==
  LET upTo[t \in 0 .. MaxLevel] ==
        IF t = 0 THEN [ok |-> TRUE, witnesses |-> <<>>]
        ELSE
          LET last     == upTo[t - 1]
              entrants == {x \in DOMAIN birth : birth[x] = t}
              kept     == /\ last.witnesses # <<>>
                          /\ LET apex == last.witnesses[Len(last.witnesses)].apex
                             IN  \A x \in entrants : dist[<<apex, x>>] <= t
              apexes   == Dominating(dist, birth, t)
          IN  IF entrants = {} \/ ~last.ok \/ kept THEN last
              ELSE IF apexes = {} THEN [last EXCEPT !.ok = FALSE]
              ELSE [last EXCEPT !.witnesses = Append(@, [level |-> t, apex |-> Min(apexes)])]
  IN  upTo[MaxLevel]

\* The test of a live edge: its witness segments, empty when the edge must
\* stay.
TestEdge(edges, live, i) ==
  LET dist     == Distances(edges, live)
      birth    == Candidates(dist, edges[i])
      segments == Segments(Among(dist, birth), birth)
  IN  IF (\E x \in DOMAIN birth : birth[x] = edges[i].value) /\ segments.ok
      THEN segments.witnesses
      ELSE <<>>

-----------------------------------------------------------------------------
\* The closed common neighbourhood of an edge.
ClosedCommon(edges, live, i) ==
  Ends(edges[i]) \cup Common(Distances(edges, live), edges[i])

\* The live edges of the subgraph that a set of vertices induces.
Induced(edges, live, vertices) == {j \in live : Ends(edges[j]) \subseteq vertices}

\* The length of an adjacency list: the dead edges count.
ListLength(edges, x) == Cardinality({i \in 1 .. Len(edges) : x \in Ends(edges[i])})

\* The neighbourhood is too large to mark: the next pass tests every edge.
Bails(edges, live, i) ==
  \/ \A x \in Ends(edges[i]) : ListLength(edges, x) > 2 * MarkLimit
  \/ Cardinality(ClosedCommon(edges, live, i)) > MarkLimit

\* Mutant of Marked: only the edges at the first endpoint.
MarkedAtFirst(edges, live, i) ==
  IF Bails(edges, live, i) THEN {}
  ELSE {j \in Induced(edges, live, ClosedCommon(edges, live, i)) :
          edges[i].u \in Ends(edges[j])}

\* The edges that the removal of an edge makes dirty.
Marked(edges, live, i) ==
  IF Bails(edges, live, i) THEN {}
  ELSE Induced(edges, live, ClosedCommon(edges, live, i))

\* The first position at or after k whose edge the pass tests.
NextDue(edges, live, dirty, testAll, k) ==
  LET due == {i \in live : i >= k /\ (testAll \/ i \in dirty)}
  IN  IF due = {} THEN Len(edges) + 1 ELSE Min(due)

-----------------------------------------------------------------------------
\* What a collapse must preserve.  The simplices at a level are the sets of
\* vertices that lie pairwise within it.
Simplices(dist, t) ==
  {s \in (SUBSET Vertices) \ {{}} : \A x, y \in s : dist[<<x, y>>] <= t}

EulerCharacteristic(dist, t) ==
  LET all == Simplices(dist, t)
  IN  Cardinality({s \in all : Cardinality(s) % 2 = 1})
        - Cardinality({s \in all : Cardinality(s) % 2 = 0})

\* The connected component of a vertex at a level.
Component(dist, t, x) ==
  LET reached[k \in 0 .. NumVertices] ==
        IF k = 0 THEN {x}
        ELSE LET before == reached[k - 1]
             IN  {y \in Vertices : \E z \in before : dist[<<y, z>>] <= t}
  IN  reached[NumVertices]

\* Two graphs have the same components and the same Euler characteristic at
\* every level.
SameShape(dist, other) ==
  \A t \in Level :
    /\ EulerCharacteristic(dist, t) = EulerCharacteristic(other, t)
    /\ \A x \in Vertices : Component(dist, t, x) = Component(other, t, x)
=============================================================================
