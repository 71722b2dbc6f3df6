---------------------------- MODULE OrderedCollapse ----------------------------
(****************************************************************************)
(* The ordered schedule of the edge collapse (collapse/ordered.rs): workers *)
(* test a window of due edges against the frozen graph, then one thread     *)
(* walks the window in order, reuses the verdicts that no removal of the    *)
(* window may have changed, and tests the other edges again.                *)
(*                                                                          *)
(* The workers of a stage only read the graph, which nobody writes until    *)
(* they are done, so that a stage's tests are one action.                   *)
(****************************************************************************)
EXTENDS CollapseRun

CONSTANT Windows   \* the window sizes

ASSUME WindowsAssumption == Windows \subseteq Nat \ {0}

VARIABLES
  window,      \* how many due edges a stage forms
  removedAny,  \* this pass removed an edge
  position,    \* the next position to form from or to retire
  members,     \* the positions of the stage
  cached,      \* the verdict of each member on the frozen graph
  stale        \* the members whose verdict a removal may have changed

\* The phases are "form", "test", "retire" and "done".
graphVars == <<runVars, removedAny>>
orderedVars == <<window, graphVars, phase, position, members, cached, stale>>

LastMember == Max(members)

OrderedInit ==
  /\ RunInit
  /\ window \in Windows
  /\ removedAny = FALSE
  /\ phase = "form"
  /\ position = 1
  /\ members = {}
  /\ cached = <<>>
  /\ stale = {}

-----------------------------------------------------------------------------
\* The first due positions from here on, at most a window of them, become a
\* stage.  Their dirty flags stay.
FormStage ==
  LET due == {i \in Positions : i >= position /\ Due(i)} IN
  /\ phase = "form"
  /\ due # {}
  /\ members' = {i \in due : Cardinality({j \in due : j < i}) < window}
  /\ stale' = {}
  /\ phase' = "test"
  /\ UNCHANGED <<window, graphVars, position, cached>>

\* The workers test every member against the same graph.
TestStage ==
  /\ phase = "test"
  /\ cached' = [i \in members |-> TestEdge(edges, live, i)]
  /\ phase' = "retire"
  /\ UNCHANGED <<window, graphVars, position, members, stale>>

\* The next position of the walk; after the last member a new stage forms.
Advance ==
  /\ position' = position + 1
  /\ phase' = IF position = LastMember THEN "form" ELSE "retire"

\* Mutant of RetireSkip: the walk visits the members only.
RetireMembersOnly ==
  /\ phase = "retire"
  /\ ~Due(position) \/ position \notin members
  /\ Advance
  /\ UNCHANGED <<window, graphVars, members, cached, stale>>

\* The walk passes a position that is not due.
RetireSkip ==
  /\ phase = "retire"
  /\ ~Due(position)
  /\ Advance
  /\ UNCHANGED <<window, graphVars, members, cached, stale>>

\* Mutant of Verdict: a stale verdict is used.
VerdictNeverStale ==
  IF position \in members THEN cached[position] ELSE TestEdge(edges, live, position)

\* The witnesses of the position: the cached ones of a member that is not
\* stale, else those of a new test.
Verdict ==
  IF position \in members \ stale
  THEN cached[position]
  ELSE TestEdge(edges, live, position)

\* The edge at the position stays.
RetireKeep ==
  /\ phase = "retire"
  /\ Due(position)
  /\ Verdict = <<>>
  /\ dirty' = dirty \ {position}
  /\ Advance
  /\ UNCHANGED <<window, edges, live, testAll, testAllNext, removedAny, epochs, steps,
                 members, cached, stale>>

\* Mutant of Invalidated: a neighbourhood too large to mark invalidates nothing.
InvalidatedByMark ==
  {i \in members : i > position /\ i \in Marked(edges, live, position)}

\* The members whose verdict the removal of the position may change: those
\* inside its closed common neighbourhood, or all that are left when that is
\* too large to mark.
Invalidated ==
  LET remaining == {i \in members : i > position}
  IN  IF Bails(edges, live, position) THEN remaining
      ELSE {i \in remaining :
              Ends(edges[i]) \subseteq ClosedCommon(edges, live, position)}

\* The edge at the position goes.
RetireRemove ==
  /\ phase = "retire"
  /\ Due(position)
  /\ Verdict # <<>>
  /\ live' = live \ {position}
  /\ dirty' = (dirty \ {position}) \cup Marked(edges, live, position)
  /\ testAllNext' = (testAllNext \/ Bails(edges, live, position))
  /\ stale' = stale \cup Invalidated
  /\ steps' = Append(steps, [edge |-> position, epoch |-> epochs, witnesses |-> Verdict])
  /\ removedAny' = TRUE
  /\ Advance
  /\ UNCHANGED <<window, edges, testAll, epochs, members, cached>>

\* No position is due: the pass ends, and another follows if it removed an edge.
EndPass ==
  /\ phase = "form"
  /\ \A i \in Positions : i >= position => ~Due(i)
  /\ IF removedAny
     THEN /\ epochs' = epochs + 1
          /\ testAll' = testAllNext
          /\ testAllNext' = FALSE
          /\ removedAny' = FALSE
          /\ position' = 1
          /\ UNCHANGED phase
     ELSE /\ phase' = "done"
          /\ UNCHANGED <<epochs, testAll, testAllNext, removedAny, position>>
  /\ UNCHANGED <<window, edges, live, dirty, steps, members, cached, stale>>

OrderedNext ==
  FormStage \/ TestStage \/ RetireSkip \/ RetireKeep \/ RetireRemove \/ EndPass

OrderedSpec == OrderedInit /\ [][OrderedNext]_orderedVars

-----------------------------------------------------------------------------
(* A cached verdict that the walk has yet to reach and that no removal has  *)
(* made stale is the verdict of the graph as it is now: the removals of the *)
(* stage that it survived cannot have touched its neighbourhood             *)
(* (ordered.rs:4-13, invalidate_stage).                                     *)
CacheFresh ==
  phase = "retire" =>
    \A i \in members \ stale :
      i >= position => cached[i] = TestEdge(edges, live, i)

(* Every stage, whatever its window, does what the serial schedule does to  *)
(* the same edges in the same order, so that the certificate is the serial  *)
(* one step for step (ordered.rs:9-13).  A window of 0 stands for a run of  *)
(* another schedule: the serial one is then at the start of an empty graph. *)
Staged == window # 0

Serial == INSTANCE SerialCollapse WITH
  edges       <- IF Staged THEN edges ELSE <<>>,
  live        <- IF Staged THEN live ELSE {},
  dirty       <- IF Staged THEN dirty ELSE {},
  testAll     <- Staged => testAll,
  testAllNext <- Staged /\ testAllNext,
  removedAny  <- Staged /\ removedAny,
  epochs      <- IF Staged THEN epochs ELSE 1,
  steps       <- IF Staged THEN steps ELSE <<>>,
  cursor      <- IF ~Staged THEN 1
                 ELSE IF phase = "done" THEN Len(edges) + 1
                 ELSE NextDue(edges, live, dirty, testAll, position),
  finished    <- Staged /\ phase = "done"

RefinesSerial == Serial!Spec
=============================================================================
