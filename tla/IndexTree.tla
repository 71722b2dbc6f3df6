------------------------------ MODULE IndexTree ------------------------------
(***************************************************************************)
(* The separator tree of a persistence index (holos-tda/src/index): the    *)
(* decomposition of the listed edges, the interface of every scope, and    *)
(* the tree of a graph that differs from the last one in some values.      *)
(*                                                                         *)
(* The listed edges of a graph are its topology; those above the threshold *)
(* are inactive.  Parameters are [policy, leafVertices, width, limit].  A  *)
(* node is what its digest binds: its scope, with the positions of its     *)
(* edges in the topology, its separator, its protected vertices, its       *)
(* children and its interface, whose graph holds the active edges only.    *)
(***************************************************************************)
EXTENDS RelativeInterface

CONSTANT Threshold      \* RipsParams::threshold

ASSUME ThresholdAssumption == Threshold \in Nat

Active(g) == Within(g, Threshold)

\* local_graph; the points keep their names, only their order matters.
Local(g, V) ==
  [points |-> V, dist |-> Restrict(g.dist, {e \in DOMAIN g.dist : e \subseteq V})]

EdgePosition(g, e) == Cardinality({f \in DOMAIN g.dist : ListedBefore(f, e)})
PositionsIn(g, V) == {EdgePosition(g, e) : e \in {e \in DOMAIN g.dist : e \subseteq V}}

ChangedEdges(old, new) == {e \in DOMAIN old.dist : old.dist[e] # new.dist[e]}

-----------------------------------------------------------------------------
(* decompose.rs *)

\* scope_components
ScopeComponents(g, V, S) == Components(V \ S, {e \in DOMAIN g.dist : e \subseteq V \ S})

\* find_separator, from one width on.  Of the candidates the limit lets it try,
\* the one whose largest component is least, then the first.
RECURSIVE FoundSeparator(_, _, _, _, _)
FoundSeparator(params, g, V, width, checked) ==
  LET all        == kSubset(width, V)
      tried      == {S \in all : Cardinality({T \in all : ListedBefore(T, S)})
                                   < params.limit - checked}
      splits     == {S \in tried : Cardinality(ScopeComponents(g, V, S)) > 1}
      largest    == [S \in splits |-> Max({Cardinality(C) : C \in ScopeComponents(g, V, S)})]
      better(S, T) == \/ largest[S] < largest[T]
                      \/ largest[S] = largest[T] /\ ListedBefore(S, T)
      search     == [checked |-> checked + Cardinality(tried), complete |-> tried = all]
  IN  IF width > Min({params.width, Cardinality(V) - 2})
      THEN [found |-> {}, search |-> [checked |-> checked, complete |-> TRUE]]
      ELSE IF splits # {}
      THEN [found  |-> {CHOOSE S \in splits : \A T \in splits \ {S} : better(S, T)},
            search |-> search]
      ELSE IF ~search.complete THEN [found |-> {}, search |-> search]
      ELSE FoundSeparator(params, g, V, width + 1, search.checked)

\* The separator of a scope: none between components, else the one found.
Separator(params, g, V, search) ==
  IF Cardinality(V) <= params.leafVertices \/ ~search.complete
  THEN [found |-> {}, search |-> search]
  ELSE IF Cardinality(ScopeComponents(g, V, {})) > 1
  THEN [found |-> {{}}, search |-> search]
  ELSE FoundSeparator(params, g, V, 1, search.checked)

\* decompose; the search goes through the scopes depth first.
RECURSIVE Decomposed(_, _, _, _)
Decomposed(params, g, V, search) ==
  LET add(below, child) ==
        [below EXCEPT !.tree.children = Append(@, child.tree), !.search = child.search]
      leaf(choice, S) ==
        [tree   |-> [vertices |-> V, separator |-> S, children |-> <<>>],
         search |-> choice.search]
      split(choice, S) ==
        FoldLeft(LAMBDA below, part : add(below, Decomposed(params, g, S \cup part, below.search)),
                 leaf(choice, S),
                 SetToSortSeq(ScopeComponents(g, V, S), ListedBefore))
      of(choice) == IF choice.found = {} THEN leaf(choice, {})
                    ELSE split(choice, CHOOSE S \in choice.found : TRUE)
  IN  of(Separator(params, g, V, search))

-----------------------------------------------------------------------------
(* interface.rs *)

\* Mutant of InheritedProtection: only the separators of the ancestors.
ProtectionWithoutSeparator(inherited, separator, V) == inherited \cap V

InheritedProtection(inherited, separator, V) == (inherited \cup separator) \cap V

JoinedAtZero(g, e) == e \in DOMAIN g.dist /\ g.dist[e] = 0

IsZeroSeparator(g, S) == \A e \in EdgesOf(S) : JoinedAtZero(g, e)

IsZeroCone(g, S) ==
  /\ \A e \in EdgesOf(S) \cap DOMAIN g.dist : g.dist[e] = 0 \/ g.dist[e] > Threshold
  /\ \E center \in S : \A v \in S \ {center} : JoinedAtZero(g, {center, v})

CompositionMode(g, node, children) ==
  IF children = <<>> THEN "none"
  ELSE IF node.separator = {} THEN "disjoint"
  ELSE IF IsZeroSeparator(g, node.separator) THEN "zero simplex"
  ELSE IF IsZeroCone(g, node.separator) THEN "zero cone"
  ELSE "none"

\* compose_diagram: all bars of the children, but one essential class of a
\* connected separator.
Essential == [dim |-> 0, birth |-> 0, death |-> Infinite]

Composed(mode, children) ==
  LET all   == FoldLeft(LAMBDA sum, child : sum (+) child.state.diagram, EmptyBag, children)
      extra == IF mode = "disjoint" THEN EmptyBag ELSE Essential :> Len(children) - 1
  IN  IF extra \sqsubseteq all THEN [kind |-> mode, diagram |-> all (-) extra] ELSE Refused

\* compile_relative_state, relative_state: of a part of the graph, or glued
\* from the cores of the children.
RelativeState(g, node, children) ==
  LET part  == Local(Active(g), node.vertices)
      cells == IF children = <<>> THEN FlagCells(part)
               ELSE Merged({child.state.core : child \in ToSet(children)})
  IN  IF cells = NoComplex THEN Refused
      ELSE IF children = <<>> THEN AsEngine(part, Relative(cells, node.protected))
      ELSE Relative(cells, node.protected)

\* compile_state
CompiledState(policy, g, node, children) ==
  LET mode == CompositionMode(g, node, children)
  IN  IF policy = "relative" THEN RelativeState(g, node, children)
      ELSE IF policy = "compose" /\ mode # "none" THEN Composed(mode, children)
      ELSE Built(Local(Active(g), node.vertices))

\* A node, unless a child or its own state was refused.
NodeOf(g, node, children, state) ==
  IF \/ state = Refused
     \/ \E i \in DOMAIN children : children[i] = Refused
  THEN Refused
  ELSE [vertices |-> node.vertices, edges |-> PositionsIn(g, node.vertices),
        separator |-> node.separator, protected |-> node.protected,
        children |-> children, state |-> state]

\* compile_node, compile_children
RECURSIVE CompiledNode(_, _, _, _)
CompiledNode(policy, g, tree, protected) ==
  LET child(t) == CompiledNode(policy, g, t,
                    InheritedProtection(protected, tree.separator, t.vertices))
      children == [i \in DOMAIN tree.children |-> child(tree.children[i])]
      node     == [vertices |-> tree.vertices, separator |-> tree.separator,
                   protected |-> protected]
  IN  IF \E i \in DOMAIN children : children[i] = Refused THEN Refused
      ELSE NodeOf(g, node, children, CompiledState(policy, g, node, children))

\* PersistenceIndex::compile
Compile(params, g) ==
  LET tree == Decomposed(params, g, g.points, [checked |-> 0, complete |-> TRUE]).tree
  IN  [params |-> params, graph |-> g, root |-> CompiledNode(params.policy, g, tree, {})]

-----------------------------------------------------------------------------
(* update.rs *)

\* crosses_threshold
Crosses(old, new, V) == DOMAIN Local(Active(old), V).dist # DOMAIN Local(Active(new), V).dist

\* update_state: a composition is made again, a reduction is repaired unless an
\* edge crosses the threshold.
UpdatedState(policy, old, new, node, children) ==
  IF \/ policy = "relative"
     \/ policy = "compose" /\ CompositionMode(new, node, children) # "none"
     \/ Crosses(old, new, node.vertices)
     \/ node.state.kind # "materialized"
  THEN CompiledState(policy, new, node, children)
  ELSE Repaired(node.state, Local(Active(old), node.vertices),
                Local(Active(new), node.vertices))

\* Mutant of UpdatedNode: a node is kept unless a changed edge is active.
RECURSIVE UpdatedIfActive(_, _, _, _)
UpdatedIfActive(policy, old, new, node) ==
  LET children == [i \in DOMAIN node.children |->
                     UpdatedIfActive(policy, old, new, node.children[i])]
  IN  IF ~\E e \in ChangedEdges(old, new) : e \subseteq node.vertices /\ new.dist[e] <= Threshold
      THEN node
      ELSE IF \E i \in DOMAIN children : children[i] = Refused THEN Refused
      ELSE NodeOf(new, node, children, UpdatedState(policy, old, new, node, children))

\* update_node: a node without a changed edge is shared.
RECURSIVE UpdatedNode(_, _, _, _)
UpdatedNode(policy, old, new, node) ==
  LET children == [i \in DOMAIN node.children |->
                     UpdatedNode(policy, old, new, node.children[i])]
  IN  IF ~\E e \in ChangedEdges(old, new) : e \subseteq node.vertices THEN node
      ELSE IF \E i \in DOMAIN children : children[i] = Refused THEN Refused
      ELSE NodeOf(new, node, children, UpdatedState(policy, old, new, node, children))

\* transition_with, transition_fixed_envelope
Transition(index, g) ==
  IF g.points # index.graph.points \/ DOMAIN g.dist # DOMAIN index.graph.dist
  THEN Compile(index.params, g)
  ELSE [index EXCEPT !.graph = g,
                     !.root = UpdatedNode(index.params.policy, index.graph, g, @)]

-----------------------------------------------------------------------------
(* The nodes of a tree *)

RECURSIVE Preorder(_)
Preorder(node) ==
  <<node>> \o FlattenSeq([i \in DOMAIN node.children |-> Preorder(node.children[i])])

TreeNodes(node) == ToSet(Preorder(node))

\* The same interface at two places of the tree.
Repeats(node) == ~IsInjective(Preorder(node))
=============================================================================
