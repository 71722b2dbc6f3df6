---------------------------- MODULE SerialCollapse ----------------------------
(****************************************************************************)
(* The serial schedule of the edge collapse (collapse/execution.rs,         *)
(* collapse_impl): passes over the edges in order, each removal visible to  *)
(* every later test, until a pass removes nothing.                          *)
(****************************************************************************)
EXTENDS CollapseGraph

CONSTANT Starts   \* the prepared inputs a run may start from

VARIABLES
  edges,       \* the edges in schedule order
  live,        \* the positions of the edges that are alive
  dirty,       \* the positions whose verdict may have changed
  testAll,     \* this pass tests every live edge
  testAllNext, \* a removal of this pass was too large to mark
  removedAny,  \* this pass removed an edge
  epochs,      \* the number of this pass
  steps,       \* the certificate: the removals so far, with their witnesses
  cursor,      \* the next position that this pass tests; past the end if none
  finished     \* the last pass removed nothing

vars == <<edges, live, dirty, testAll, testAllNext, removedAny, epochs, steps,
          cursor, finished>>

Position == 1 .. Len(edges)

Init ==
  /\ edges \in Starts
  /\ live = Position
  /\ dirty = {}
  /\ testAll = TRUE
  /\ testAllNext = FALSE
  /\ removedAny = FALSE
  /\ epochs = 1
  /\ steps = <<>>
  /\ cursor = 1
  /\ finished = FALSE

-----------------------------------------------------------------------------
\* The edge at the next due position stays.
Keep ==
  /\ cursor \in Position
  /\ TestEdge(edges, live, cursor) = <<>>
  /\ dirty' = dirty \ {cursor}
  /\ cursor' = NextDue(edges, live, dirty', testAll, cursor + 1)
  /\ UNCHANGED <<edges, live, testAll, testAllNext, removedAny, epochs, steps, finished>>

\* The edge at the next due position goes, and the edges around it are dirty.
Remove ==
  LET witnesses == TestEdge(edges, live, cursor) IN
  /\ cursor \in Position
  /\ witnesses # <<>>
  /\ live' = live \ {cursor}
  /\ dirty' = (dirty \ {cursor}) \cup Marked(edges, live, cursor)
  /\ testAllNext' = (testAllNext \/ Bails(edges, live, cursor))
  /\ steps' = Append(steps, [edge |-> cursor, epoch |-> epochs, witnesses |-> witnesses])
  /\ removedAny' = TRUE
  /\ cursor' = NextDue(edges, live', dirty', testAll, cursor + 1)
  /\ UNCHANGED <<edges, testAll, epochs, finished>>

\* A pass that removed an edge is followed by another.
StartPass ==
  /\ cursor \notin Position
  /\ removedAny
  /\ epochs' = epochs + 1
  /\ testAll' = testAllNext
  /\ testAllNext' = FALSE
  /\ removedAny' = FALSE
  /\ cursor' = NextDue(edges, live, dirty, testAll', 1)
  /\ UNCHANGED <<edges, live, dirty, steps, finished>>

\* A pass that removed nothing ends the run.
Finish ==
  /\ cursor \notin Position
  /\ ~removedAny
  /\ ~finished
  /\ finished' = TRUE
  /\ UNCHANGED <<edges, live, dirty, testAll, testAllNext, removedAny, epochs, steps, cursor>>

Next == Keep \/ Remove \/ StartPass \/ Finish

Spec == Init /\ [][Next]_vars

FairSpec == Spec /\ WF_vars(Next)

-----------------------------------------------------------------------------
\* A pass that tests every live edge, from the live edges and the removals
\* before it.
FullPass(run, epoch) ==
  LET visited[k \in 0 .. Len(edges)] ==
        IF k = 0 THEN run
        ELSE LET last      == visited[k - 1]
                 witnesses == IF k \in last.live THEN TestEdge(edges, last.live, k) ELSE <<>>
             IN  IF witnesses = <<>> THEN last
                 ELSE [live  |-> last.live \ {k},
                       steps |-> Append(last.steps, [edge |-> k, epoch |-> epoch,
                                                     witnesses |-> witnesses])]
  IN  visited[Len(edges)]

\* The first passes of a run that never skips a live edge.
FullRetest(passes) ==
  LET after[p \in 0 .. passes] ==
        IF p = 0 THEN [live |-> Position, steps |-> <<>>] ELSE FullPass(after[p - 1], p)
  IN  after[passes]

(* The comment on the dirty set (execution.rs:52-55): the sets of the later *)
(* passes "cover every edge whose verdict could have changed, so the        *)
(* certificate matches a full retest".                                      *)
MatchesFullRetest == finished => steps = FullRetest(epochs).steps
=============================================================================
