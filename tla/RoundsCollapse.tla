---------------------------- MODULE RoundsCollapse ----------------------------
(****************************************************************************)
(* The rounds schedule of the edge collapse (collapse/parallel.rs): a round *)
(* tests the due edges against the frozen graph, selects from the removable *)
(* ones greedily so that none lies in the neighbourhood of another, and     *)
(* removes the selection.                                                   *)
(****************************************************************************)
EXTENDS CollapseRun

VARIABLES
  results,     \* the verdict of each due edge on the frozen graph
  selected     \* the selected edges that are still to be removed

\* The phases are "test", "select", "commit" and "done".
roundsVars == <<runVars, phase, results, selected>>

RoundsInit ==
  /\ RunInit
  /\ phase = "test"
  /\ results = <<>>
  /\ selected = {}

-----------------------------------------------------------------------------
\* The due edges are no longer dirty, and the workers test them against the
\* same graph.
TestDue ==
  LET due == {i \in live : Due(i)} IN
  /\ phase = "test"
  /\ dirty' = dirty \ due
  /\ results' = [i \in due |-> TestEdge(edges, live, i)]
  /\ phase' = "select"
  /\ UNCHANGED <<edges, live, testAll, testAllNext, epochs, steps, selected>>

\* Mutant of Blocks: an edge blocks only the edges at its endpoints.
BlocksIncident(i) == {j \in live : Ends(edges[j]) \cap Ends(edges[i]) # {}}

\* The edges that a selected edge keeps out of the round.  Unlike the marking
\* of dirty edges this has no limit.
Blocks(i) == Induced(edges, live, ClosedCommon(edges, live, i))

\* The removable edges of the round.
Contenders == {i \in DOMAIN results : results[i] # <<>>}

\* The greedy selection, in schedule order: one of them is picked unless one
\* that was picked before it blocks it.
Greedy ==
  LET blocked == [i \in Contenders |-> Blocks(i)]
  IN  CHOOSE picked \in SUBSET Contenders :
        \A k \in Contenders : k \in picked <=> \A j \in picked : j < k => k \notin blocked[j]

\* A round that selects an edge goes on to remove it; one that selects none
\* ends the run.
Select ==
  /\ phase = "select"
  /\ selected' = Greedy
  /\ phase' = IF Greedy = {} THEN "done" ELSE "commit"
  /\ UNCHANGED <<runVars, results>>

\* The first of the selected edges goes, with the witnesses of the frozen
\* graph.
CommitOne ==
  LET i == Min(selected) IN
  /\ phase = "commit"
  /\ selected # {}
  /\ steps' = Append(steps, [edge |-> i, epoch |-> epochs, witnesses |-> results[i]])
  /\ live' = live \ {i}
  /\ dirty' = dirty \cup Marked(edges, live, i)
  /\ testAllNext' = (testAllNext \/ Bails(edges, live, i))
  /\ selected' = selected \ {i}
  /\ UNCHANGED <<edges, testAll, epochs, phase, results>>

\* The selection is removed: another round follows.
NextRound ==
  /\ phase = "commit"
  /\ selected = {}
  /\ testAll' = testAllNext
  /\ testAllNext' = FALSE
  /\ epochs' = epochs + 1
  /\ phase' = "test"
  /\ UNCHANGED <<edges, live, dirty, steps, results, selected>>

RoundsNext == TestDue \/ Select \/ CommitOne \/ NextRound

RoundsSpec == RoundsInit /\ [][RoundsNext]_roundsVars

-----------------------------------------------------------------------------
(* The removals of a round do not disturb each other: the verdict of every  *)
(* edge still to be removed is the verdict of the graph as it is now,       *)
(* witnesses included, so that the certificate replays one step after       *)
(* another (parallel.rs:4-9).                                               *)
FrozenVerdictHolds ==
  phase = "commit" => \A i \in selected : TestEdge(edges, live, i) = results[i]
=============================================================================
