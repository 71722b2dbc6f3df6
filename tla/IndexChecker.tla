---------------------------- MODULE IndexChecker ----------------------------
(***************************************************************************)
(* The separate checker of index proofs (holos-tda-check/src/index): what  *)
(* a complete snapshot and a delta against a verified state are checked    *)
(* for.  A verified state is [graph, root, nodes, diagram]; it keeps every *)
(* node it has seen.  The limits on bytes and nodes are left out.          *)
(***************************************************************************)
EXTENDS IndexTree

\* check_direct_shape
IsShaped(g, nodes, node) ==
  LET below == ToSet(node.children) IN
  /\ node.vertices # {}
  /\ node.separator \cup node.protected \subseteq node.vertices
  /\ node.vertices \subseteq g.points
  /\ node.edges = PositionsIn(g, node.vertices)
  /\ IF below = {} THEN node.separator = {}
     ELSE /\ Len(node.children) >= 2
          /\ below \subseteq nodes
          /\ \A child \in below :
               /\ child.protected =
                    InheritedProtection(node.protected, node.separator, child.vertices)
               /\ child.vertices \subseteq node.vertices
               /\ child.vertices # node.vertices
          /\ UNION {child.vertices : child \in below} = node.vertices
          /\ \A i, j \in DOMAIN node.children :
               i < j => node.children[i].vertices \cap node.children[j].vertices
                          = node.separator
          /\ node.edges \subseteq UNION {child.edges : child \in below}

\* check_relative_node, check_relative_parent
HoldsRelative(g, node) ==
  LET below == ToSet(node.children) IN
  /\ node.state.protected = node.protected
  /\ \A child \in below : child.state.kind = "relative"
  /\ node.state.source = IF below = {} THEN FlagCells(Local(Active(g), node.vertices))
                         ELSE Merged({child.state.core : child \in below})
  /\ IsRelative(node.state)

\* check_composition_rule
MayCompose(g, node) ==
  CASE node.state.kind = "disjoint"     -> node.separator = {}
    [] node.state.kind = "zero simplex" -> node.separator # {} /\ IsZeroSeparator(g, node.separator)
    [] node.state.kind = "zero cone"    -> node.separator # {} /\ IsZeroCone(g, node.separator)

\* check_node
Holds(g, node) ==
  CASE node.state.kind = "relative"     -> HoldsRelative(g, node)
    [] node.state.kind = "materialized" ->
         node.state = Certificate(Local(Active(g), node.vertices), node.state.columns)
    [] OTHER -> /\ MayCompose(g, node)
                /\ node.state = Composed(node.state.kind, node.children)

-----------------------------------------------------------------------------
\* verify_snapshot, with verify_subtree
SnapshotAccepted(record) ==
  LET g == record.graph IN
  /\ ~Repeats(record.root)
  /\ TreeNodes(record.root) = record.nodes
  /\ \A node \in record.nodes : IsShaped(g, record.nodes, node) /\ Holds(g, node)
  /\ record.root.vertices = g.points
  /\ record.root.protected = {}
  /\ record.diagram = record.root.state.diagram

\* collect_new_reachable
RECURSIVE ReachedNew(_, _)
ReachedNew(node, supplied) ==
  IF node \notin supplied THEN {}
  ELSE {node} \cup UNION {ReachedNew(child, supplied) : child \in ToSet(node.children)}

\* require_changed_path: every node that holds a changed edge is supplied.
RECURSIVE PathSupplied(_, _, _)
PathSupplied(node, p, supplied) ==
  p \in node.edges =>
    /\ node \in supplied
    /\ \A child \in ToSet(node.children) : PathSupplied(child, p, supplied)

\* Mutant of InContext: the root of the delta is not compared.
HasEnvelope(state, delta) ==
  /\ delta.points = state.graph.points
  /\ delta.edges = Cardinality(DOMAIN state.graph.dist)

\* validate_delta_context
InContext(state, delta) ==
  /\ delta.points = state.graph.points
  /\ delta.edges = Cardinality(DOMAIN state.graph.dist)
  /\ delta.old = state.root

\* The graph of the candidate: changes by their positions.
ChangedGraph(g, changes) ==
  [g EXCEPT !.dist = [e \in DOMAIN @ |-> IF EdgePosition(g, e) \in DOMAIN changes
                                         THEN changes[EdgePosition(g, e)] ELSE @[e]]]

\* apply_delta
DeltaAccepted(state, delta) ==
  LET g     == ChangedGraph(state.graph, delta.changes)
      nodes == state.nodes \cup delta.nodes
  IN  /\ InContext(state, delta)
      /\ delta.root \in nodes
      /\ ReachedNew(delta.root, delta.nodes) = delta.nodes
      /\ \A p \in DOMAIN delta.changes :
           PathSupplied(delta.root, p, delta.nodes)
      /\ \A node \in delta.nodes : IsShaped(g, nodes, node) /\ Holds(g, node)
      /\ delta.diagram = IF delta.nodes = {} THEN state.diagram ELSE delta.root.state.diagram
      /\ delta.nodes = {} => delta.changes = <<>> /\ delta.root = state.root

\* The state after a record that was accepted.
SnapshotState(record) ==
  [graph |-> record.graph, root |-> record.root, nodes |-> record.nodes,
   diagram |-> record.diagram]

DeltaState(state, delta) ==
  [graph   |-> ChangedGraph(state.graph, delta.changes),
   root    |-> delta.root,
   nodes   |-> state.nodes \cup delta.nodes,
   diagram |-> delta.diagram]
=============================================================================
