---------------------------- MODULE DiagramState ----------------------------
(***************************************************************************)
(* ProgramDiagramState (program/diagram.rs): a program that answers with   *)
(* diagrams alone.  An update inside every region evaluates the diagram    *)
(* and leaves the program at older weights (dirty); the class spaces are   *)
(* brought to the current weights only when they are asked for.            *)
(***************************************************************************)
EXTENDS PersistenceProgram

VARIABLES
  lazy,      \* the program, at the weights it was last materialized at
  graph,     \* the current graph
  diagram,   \* its diagram
  dirty      \* the program is behind the graph

dvars == <<lazy, graph, diagram, dirty>>

DiagramTypeOK ==
  /\ lazy \in Programs
  /\ graph \in Graphs
  /\ diagram \in Diagrams
  /\ dirty \in BOOLEAN

\* into_diagram_state of a compiled program.
DiagramInit ==
  \E g \in Graphs :
    /\ ~CompileFails(g)
    /\ lazy = Compile(g)
    /\ graph = lazy.graph
    /\ diagram = lazy.result
    /\ dirty = FALSE

\* recompile: nothing is assigned before the compilation succeeds.
Recompile(g) ==
  IF CompileFails(g) THEN UNCHANGED dvars
  ELSE /\ lazy' = Compile(g)
       /\ graph' = g
       /\ diagram' = Compile(g).result
       /\ dirty' = FALSE

\* advance.
AdvanceDiagram(g) ==
  IF TopologyChanged(lazy, g) THEN Recompile(g)
  ELSE IF g = graph THEN UNCHANGED dvars
  ELSE IF Evaluable(lazy, g)
       THEN /\ graph' = g
            /\ diagram' = DiagramOf(g)
            /\ dirty' = TRUE
            /\ UNCHANGED lazy
       ELSE Recompile(g)

\* recompile_for_materialization: the accepted diagram is not replaced.
RecompileForMaterialization ==
  IF CompileFails(graph) \/ Compile(graph).result # diagram THEN UNCHANGED dvars
  ELSE /\ lazy' = Compile(graph)
       /\ dirty' = FALSE
       /\ UNCHANGED <<graph, diagram>>

\* Mutant of Materialize: the program itself advances.
MaterializeInPlace ==
  /\ dirty
  /\ \E outcome \in Advance(lazy, graph) :
       /\ lazy' = outcome.program
       /\ dirty' = ~outcome.ok
       /\ UNCHANGED <<graph, diagram>>

\* materialize: a copy of the program advances to the current graph.
Materialize ==
  /\ dirty
  /\ \E outcome \in Advance(lazy, graph) :
       IF outcome.ok /\ outcome.program.result = diagram
       THEN /\ lazy' = outcome.program
            /\ dirty' = FALSE
            /\ UNCHANGED <<graph, diagram>>
       ELSE RecompileForMaterialization

DiagramNext == Materialize \/ \E g \in Graphs : AdvanceDiagram(g)

DiagramSpec == DiagramInit /\ [][DiagramNext]_dvars

-----------------------------------------------------------------------------
\* Whatever sequence of evaluations, failed compilations and
\* materializations came before, the diagram is that of the current graph
\* and the program behind it is whole; and a program that is not dirty
\* answers for the current graph (diagram.rs:31).
DiagramIsCurrent ==
  /\ diagram = DiagramOf(graph)
  /\ Sound(lazy)
  /\ graph.shape = lazy.graph.shape
  /\ ~dirty => lazy.graph = graph
=============================================================================
