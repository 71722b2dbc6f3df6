----------------------------- MODULE GraphBlocks -----------------------------
(***************************************************************************)
(* The decomposition of a graph (holos-tda/src/factorization): the         *)
(* vertex-biconnected blocks by one depth-first search with low links,     *)
(* then, for a persistence program, each block split at separators whose   *)
(* points are pairwise at distance zero.                                   *)
(*                                                                         *)
(* An edge is a set of two points.  A block is [vertices, edges].          *)
(***************************************************************************)
EXTENDS FlagFiltration, SequencesExt

CONSTANTS
  SeparatorWidth,    \* PROGRAM_SEPARATOR_WIDTH
  SearchLimit        \* PROGRAM_SEPARATOR_SEARCH_LIMIT

ASSUME SeparatorAssumption == SeparatorWidth \in Nat /\ SearchLimit \in Nat

VARIABLES
  search,      \* the depth-first search
  refining     \* the separator search

blockVars == <<search, refining>>

NoBlocks == {}
BlockOf(E) == [vertices |-> UNION E, edges |-> E]

\* block_is_cyclic
IsCyclic(block) ==
  /\ Cardinality(block.edges) >= 3
  /\ Cardinality(block.edges) >= Cardinality(block.vertices)

-----------------------------------------------------------------------------
(* BlockSearch *)

Neighbors(g, v) == UNION {e \in DOMAIN g.dist : v \in e} \ {v}

\* next is kept as the neighbors still to be taken, in order.
NewSearch(g) ==
  [graph |-> g, discovered |-> <<>>, low |-> <<>>, time |-> 0,
   untried |-> [v \in g.points |-> Neighbors(g, v)],
   parent |-> <<>>, path |-> <<>>, stack |-> <<>>, blocks |-> NoBlocks]

Roots == {v \in search.graph.points \ DOMAIN search.discovered :
            Neighbors(search.graph, v) # {}}

SearchDone == search.path = <<>> /\ Roots = {}

Discover(s, v) ==
  [s EXCEPT !.discovered = @ @@ (v :> s.time),
            !.low = @ @@ (v :> s.time),
            !.time = @ + 1,
            !.path = Append(@, v)]

\* start_root
StartRoot ==
  /\ search.path = <<>> /\ Roots # {}
  /\ search' = Discover(search, Min(Roots))

\* Mutant of VisitEdge: the low link of a back edge is not taken.
VisitEdgeNoLow ==
  /\ search.path # <<>> /\ search.untried[Last(search.path)] # {}
  /\ LET v == Last(search.path)
         w == Min(search.untried[v])
         s == [search EXCEPT !.untried[v] = @ \ {w}]
     IN  search' =
           IF w \notin DOMAIN s.discovered
           THEN [Discover(s, w) EXCEPT !.parent = @ @@ (w :> v),
                                       !.stack = Append(@, {v, w})]
           ELSE IF s.discovered[w] < s.discovered[v] /\ ~(v \in DOMAIN s.parent /\ s.parent[v] = w)
           THEN [s EXCEPT !.stack = Append(@, {v, w})]
           ELSE s

\* visit_edge: the next neighbor of the top of the path is new, or an
\* ancestor by another edge than the one it was reached by.
VisitEdge ==
  /\ search.path # <<>> /\ search.untried[Last(search.path)] # {}
  /\ LET v == Last(search.path)
         w == Min(search.untried[v])
         s == [search EXCEPT !.untried[v] = @ \ {w}]
         isTreeEdge == v \in DOMAIN s.parent /\ s.parent[v] = w
     IN  search' =
           IF w \notin DOMAIN s.discovered
           THEN [Discover(s, w) EXCEPT !.parent = @ @@ (w :> v),
                                       !.stack = Append(@, {v, w})]
           ELSE IF s.discovered[w] < s.discovered[v] /\ ~isTreeEdge
           THEN [s EXCEPT !.low[v] = Min({@, s.discovered[w]}),
                          !.stack = Append(@, {v, w})]
           ELSE s

\* finish_vertex, pop_block: a block ends at the tree edge over which no
\* back edge of the subtree reaches.
FinishVertex ==
  /\ search.path # <<>> /\ search.untried[Last(search.path)] = {}
  /\ LET v == Last(search.path)
         s == [search EXCEPT !.path = Front(@)]
     IN  IF v \notin DOMAIN s.parent THEN search' = s
         ELSE LET p == s.parent[v]
                  t == CHOOSE i \in DOMAIN s.stack : s.stack[i] = {p, v}
                  linked == [s EXCEPT !.low[p] = Min({@, s.low[v]})]
              IN  search' =
                    IF s.low[v] >= s.discovered[p]
                    THEN [linked EXCEPT
                            !.stack = SubSeq(@, 1, t - 1),
                            !.blocks = @ \cup
                              {BlockOf(Range(SubSeq(s.stack, t, Len(s.stack))))}]
                    ELSE linked

SearchStep == (StartRoot \/ VisitEdge \/ FinishVertex) /\ UNCHANGED refining

-----------------------------------------------------------------------------
(* SeparatorSearch *)


FirstEdge(block) ==
  CHOOSE e \in block.edges : \A f \in block.edges \ {e} : ListedBefore(e, f)

NewRefinement(blocks) ==
  [pending  |-> SetToSortSeq(blocks,
                  LAMBDA b, c : ListedBefore(FirstEdge(b), FirstEdge(c))),
   output   |-> NoBlocks,
   checked  |-> 0,
   complete |-> TRUE]

\* find: the candidates of a block in the order in which they are tried.
Candidates(block) ==
  UNION {kSubset(width, block.vertices) :
           width \in 2 .. Min({SeparatorWidth, Cardinality(block.vertices) - 2})}

TriedBefore(S, T) ==
  \/ Cardinality(S) < Cardinality(T)
  \/ Cardinality(S) = Cardinality(T) /\ ListedBefore(S, T)

IsZeroSimplex(g, S) == \A e \in EdgesOf(S) : e \in DOMAIN g.dist /\ g.dist[e] = 0

\* components_without
ComponentsWithout(block, S) ==
  Components(block.vertices \ S, {e \in block.edges : e \cap S = {}})

\* child_block
ChildBlock(block, S, component) ==
  [vertices |-> S \cup component,
   edges    |-> {e \in block.edges : e \subseteq S \cup component}]

\* Mutant of Separators: the points of a separator only have to be joined.
SeparatorsAnyValue(g, block) ==
  {S \in Candidates(block) :
     /\ EdgesOf(S) \subseteq DOMAIN g.dist
     /\ Cardinality(ComponentsWithout(block, S)) > 1}

Separators(g, block) ==
  {S \in Candidates(block) :
     /\ IsZeroSimplex(g, S)
     /\ Cardinality(ComponentsWithout(block, S)) > 1}

\* The candidates tried until a separator is found, or all of them.
TriedUpTo(block, found) ==
  IF found = {} THEN Candidates(block)
  ELSE {S \in Candidates(block) : \A T \in found : S = T \/ TriedBefore(S, T)}

\* refine, one block: split at the first separator, unless the search is over
\* its limit or the block has no cycle.
Refine(g) ==
  /\ refining.pending # <<>>
  /\ LET block == Head(refining.pending)
         rest  == Tail(refining.pending)
         all   == Separators(g, block)
         first == {S \in all : \A T \in all \ {S} : TriedBefore(S, T)}
         tried == refining.checked + Cardinality(TriedUpTo(block, first))
         kept  == [refining EXCEPT !.pending = rest, !.output = @ \cup {block}]
         skip  == \/ ~refining.complete
                  \/ Cardinality(block.edges) < Cardinality(block.vertices)
         split(S) == SetToSortSeq(ComponentsWithout(block, S), ListedBefore)
     IN  refining' =
           IF skip THEN kept
           ELSE IF tried > SearchLimit
           THEN [kept EXCEPT !.checked = SearchLimit, !.complete = FALSE]
           ELSE IF first = {} THEN [kept EXCEPT !.checked = tried]
           ELSE LET S == CHOOSE S \in first : TRUE
                IN  [refining EXCEPT
                       !.checked = tried,
                       !.pending = [i \in DOMAIN split(S) |->
                                      ChildBlock(block, S, split(S)[i])] \o rest]
  /\ UNCHANGED search

\* atom_infos: an atom with fewer edges than points has no cycle.
CyclicAtoms(blocks) ==
  {b \in blocks : Cardinality(b.edges) >= Cardinality(b.vertices)}

\* block_matrix, local_matrix: the graph of one block.  Its points keep their
\* names; only their order matters.
BlockGraph(g, block) ==
  [points |-> block.vertices, dist |-> Restrict(g.dist, block.edges)]
=============================================================================
