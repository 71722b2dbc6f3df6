------------------------------ MODULE CollapseRun ------------------------------
(****************************************************************************)
(* The state that the ordered and the rounds schedule of the edge collapse  *)
(* share: the graph, the dirty flags and the certificate                    *)
(* (collapse/ordered.rs, collapse/parallel.rs).                             *)
(****************************************************************************)
EXTENDS CollapseGraph

CONSTANT Inputs   \* the inputs a run may start from

ASSUME InputsAssumption ==
  \A input \in Inputs :
    DOMAIN input \subseteq Pairs /\ \A p \in DOMAIN input : input[p] \in Level

VARIABLES
  edges,       \* the edges in schedule order
  live,        \* the positions of the edges that are alive
  dirty,       \* the positions whose verdict may have changed
  testAll,     \* this pass or round tests every live edge
  testAllNext, \* a removal of this pass or round was too large to mark
  epochs,      \* the number of this pass or round
  steps,       \* the certificate: the removals so far, with their witnesses
  phase        \* what the run does next

runVars == <<edges, live, dirty, testAll, testAllNext, epochs, steps>>

Positions == 1 .. Len(edges)

\* The prepared inputs.
Starts == {Prepared(input) : input \in Inputs}

\* The positions to test.
Due(i) == i \in live /\ (testAll \/ i \in dirty)

RunInit ==
  /\ edges \in Starts
  /\ live = Positions
  /\ dirty = {}
  /\ testAll = TRUE
  /\ testAllNext = FALSE
  /\ epochs = 1
  /\ steps = <<>>
================================================================================
