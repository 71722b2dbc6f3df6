--------------------------- MODULE AdaptiveCollapse ---------------------------
(****************************************************************************)
(* The adaptive schedule of the edge collapse (collapse/adaptive.rs): a     *)
(* pass scores every removable live edge on one graph, then tests them      *)
(* again in score order as the graph changes, within a limit of tests.      *)
(****************************************************************************)
EXTENDS CollapseGraph

CONSTANTS
  Starts,        \* the prepared inputs a run may start from
  Objectives,    \* "H1": triangles first; "H2": tetrahedra, then triangles
  WorkLimits     \* the limits of a run; NoLimit is -1

VARIABLES
  edges,       \* the edges in schedule order
  live,        \* the positions of the edges that are alive
  steps,       \* the certificate: the removals so far, with their witnesses
  phase,       \* "plan", "pop", and at the end "done" or "limited"
  objective,   \* of the run
  limit,       \* work_limit
  used,        \* work_used: the edge tests so far
  queue        \* the candidates of the pass that are still to be retired

vars == <<edges, live, steps, phase, objective, limit, used, queue>>

Position == 1 .. Len(edges)

Init ==
  /\ edges \in Starts
  /\ live = Position
  /\ steps = <<>>
  /\ phase = "plan"
  /\ objective \in Objectives
  /\ limit \in WorkLimits
  /\ used = 0
  /\ queue = <<>>

-----------------------------------------------------------------------------
\* The triangles of an edge, and the edges among their apexes.
Triangles(i) == Common(Distances(edges, live), edges[i])
Tetrahedra(i) ==
  {pair \in SUBSET Triangles(i) :
     \E j \in live : pair = Ends(edges[j])}

\* A larger score wins, by its first part, then its second.
Score(i) ==
  IF objective = "H1" THEN <<Cardinality(Triangles(i)), 0>>
  ELSE <<Cardinality(Tetrahedra(i)), Cardinality(Triangles(i))>>

\* Candidate::cmp: a smaller index wins a tie.
InScoreOrder(removable) ==
  LET before(i, j) == LET a == Score(i)
                          b == Score(j)
                      IN  \/ a[1] > b[1]
                          \/ a[1] = b[1] /\ a[2] > b[2]
                          \/ a = b /\ i < j
      ahead   == {p \in removable \X removable : before(p[1], p[2])}
      turn(i) == Cardinality({j \in removable : <<j, i>> \in ahead})
  IN  [n \in 1 .. Cardinality(removable) |-> CHOOSE i \in removable : turn(i) = n - 1]

Affords(tests) == limit < 0 \/ used + tests <= limit

\* plan_pass: every live edge is tested, unless the limit is reached before
\* one of them; without a candidate the run is at a fixed point.
PlanPass ==
  /\ phase = "plan"
  /\ Affords(Cardinality(live))
  /\ LET removable == {i \in live : TestEdge(edges, live, i) # <<>>}
     IN  /\ queue' = InScoreOrder(removable)
         /\ phase' = IF removable = {} THEN "done" ELSE "pop"
  /\ used' = used + Cardinality(live)
  /\ UNCHANGED <<edges, live, steps, objective, limit>>

\* plan_pass, BudgetLimited: the tests before the limit are spent.
PlanLimited ==
  /\ phase = "plan"
  /\ ~Affords(Cardinality(live))
  /\ used' = limit
  /\ phase' = "limited"
  /\ UNCHANGED <<edges, live, steps, objective, limit, queue>>

\* The pass ends with its queue.
PopNext(rest) ==
  /\ queue' = rest
  /\ phase' = IF rest = <<>> THEN "plan" ELSE "pop"

\* Mutant of RetireCandidate: the edge is not tested again.
RetireUntested ==
  /\ phase = "pop"
  /\ Affords(1)
  /\ used' = used + 1
  /\ live' = live \ {Head(queue)}
  /\ steps' = Append(steps, [edge |-> Head(queue), epoch |-> Len(steps) + 1,
                             witnesses |-> TestEdge(edges, live, Head(queue))])
  /\ PopNext(Tail(queue))
  /\ UNCHANGED <<edges, objective, limit>>

\* retire_candidate: the edge is tested on the graph as it is now.  A queue
\* holds an edge once, so it is alive.
RetireCandidate ==
  LET i         == Head(queue)
      witnesses == TestEdge(edges, live, i)
  IN  /\ phase = "pop"
      /\ Affords(1)
      /\ used' = used + 1
      /\ IF witnesses = <<>> THEN UNCHANGED <<live, steps>>
         ELSE /\ live' = live \ {i}
              /\ steps' = Append(steps, [edge |-> i, epoch |-> Len(steps) + 1,
                                         witnesses |-> witnesses])
      /\ PopNext(Tail(queue))
      /\ UNCHANGED <<edges, objective, limit>>

\* retire_candidates: the limit is reached, the rest of the queue is dropped.
RetireLimited ==
  /\ phase = "pop"
  /\ ~Affords(1)
  /\ phase' = "limited"
  /\ UNCHANGED <<edges, live, steps, objective, limit, used, queue>>

Next == PlanPass \/ PlanLimited \/ RetireCandidate \/ RetireLimited

Spec == Init /\ [][Next]_vars
=============================================================================
