-------------------------- MODULE ProgramComposition --------------------------
(***************************************************************************)
(* PersistenceProgram::compile (holos-tda/src/program/composition.rs): the *)
(* graph is decomposed into blocks, the blocks are split at separators     *)
(* that are zero-filtration simplices, the class spaces of each cyclic     *)
(* atom are computed alone, and the spaces of the whole are composed from  *)
(* them by extending each cocycle by zero.                                 *)
(*                                                                         *)
(* The certificate of an atom is CertifiedAtom; here an atom is only the   *)
(* class spaces of its explained result.                                   *)
(***************************************************************************)
EXTENDS SparseRips, CanonicalClasses

VARIABLES
  atoms,        \* the atoms after refinement
  seeds,        \* the cocycles of the atoms' bases, on the whole graph
  outcome       \* "none", "compiled", or what refused the graph

compositionVars == <<atoms, seeds, outcome>>
programVars == <<sparseVars, compositionVars>>

CompositionInit ==
  /\ atoms = {}
  /\ seeds = {}
  /\ outcome = "none"

\* atom_params, fixed_class_params
ClassParams ==
  [maxDim |-> 1, apparent |-> FALSE, emergent |-> FALSE, clearing |-> TRUE,
   rows |-> FALSE, classes |-> TRUE]

\* program_blocks
StartProgram ==
  /\ request.kind = "program" /\ stage = "start"
  /\ stage' = "blocks"
  /\ UNCHANGED <<engineVars, blockVars, request, jobs, current, collected, compositionVars>>

StartRefining ==
  /\ request.kind = "program" /\ stage = "blocks" /\ SearchDone
  /\ refining' = NewRefinement(search.blocks)
  /\ stage' = "refine"
  /\ UNCHANGED <<engineVars, search, request, jobs, current, collected, compositionVars>>

RefineBlock ==
  /\ stage = "refine"
  /\ Refine(Terminal(request))
  /\ UNCHANGED <<engineVars, request, stage, jobs, current, collected, compositionVars>>

\* compile_atoms: an atom without a cycle has no certificate.
CompileAtoms ==
  /\ stage = "refine" /\ refining.pending = <<>>
  /\ atoms' = refining.output
  /\ jobs' = {Job(BlockGraph(Terminal(request), a), ClassParams, 0)
                : a \in CyclicAtoms(refining.output)}
  /\ stage' = "solve"
  /\ UNCHANGED <<engineVars, blockVars, request, current, collected, seeds, outcome>>

\* AtlasArtifact::compile, canonical_spaces: the spaces of one atom.
CollectAtom ==
  /\ request.kind = "program" /\ stage = "solve"
  /\ EngineReturns
  /\ \E spaces \in {Spaces(filtration, classes)} :
       IF RawValid(filtration, classes) /\ AllKept(spaces)
       THEN /\ seeds' = seeds \cup
                 UNION {{[bar |-> s.bar, terms |-> c, atom |-> filtration.points]
                           : c \in s.basis} : s \in spaces}
            /\ UNCHANGED <<stage, jobs, outcome>>
       ELSE /\ stage' = "done" /\ jobs' = {} /\ outcome' = "atom refused"
            /\ UNCHANGED seeds
  /\ UNCHANGED <<blockVars, request, current, collected, atoms>>

\* h0_provenance: an edge that joins two components of the edges before it.
DeathEdges(g) ==
  {e \in DOMAIN g.dist :
     LET earlier == {f \in DOMAIN g.dist : ColumnBefore(g, e, f)}
     IN  \A C \in Components(g.points, earlier) : ~(e \subseteq C)}

\* h0_diagram
H0Bars(g) ==
  LET lengths == {g.dist[e] : e \in DeathEdges(g)} \ {0}
  IN  [b \in {Bar(0, 0, d) : d \in lengths}
         |-> Cardinality({e \in DeathEdges(g) : g.dist[e] = b.death})]
        (+) [b \in {Bar(0, 0, Infinite)}
               |-> Cardinality(g.points) - Cardinality(DeathEdges(g))]

\* The intervals of the seeds, each with its multiplicity.
SeedBars ==
  LET all == {Bar(1, s.bar.birth, s.bar.death) : s \in seeds}
  IN  [b \in all |-> Cardinality({s \in seeds : Bar(1, s.bar.birth, s.bar.death) = b})]

\* compose_result, merge_spaces, and the diagram of the whole as a check.
ComposeSpaces ==
  /\ request.kind = "program" /\ stage = "solve"
  /\ phase = "idle" /\ jobs = {}
  /\ collected' = H0Bars(Terminal(request)) (+) SeedBars
  /\ IF AllKept(Spaces(Terminal(request), seeds))
     THEN /\ stage' = "check"
          /\ jobs' = {Job(Terminal(request), request.params, -1)}
          /\ UNCHANGED outcome
     ELSE /\ stage' = "done" /\ outcome' = "composition refused"
          /\ UNCHANGED jobs
  /\ UNCHANGED <<engineVars, blockVars, request, current, atoms, seeds>>

\* diagram_bits_equal
CompareDiagrams ==
  /\ stage = "check"
  /\ EngineReturns
  /\ outcome' = IF bars = collected THEN "compiled" ELSE "diagrams differ"
  /\ stage' = "done"
  /\ UNCHANGED <<blockVars, request, jobs, current, collected, atoms, seeds>>

ProgramNext ==
  \/ StartProgram \/ StartRefining \/ RefineBlock \/ CompileAtoms
  \/ CollectAtom \/ ComposeSpaces \/ CompareDiagrams

RipsInit == SparseInit /\ CompositionInit
RipsNext ==
  \/ SparseNext /\ UNCHANGED compositionVars
  \/ ProgramNext

RipsSpec == RipsInit /\ [][RipsNext]_programVars

-----------------------------------------------------------------------------
(* Properties *)

\* However a graph is decomposed, at articulations and at zero separators of
\* any width, in a complete or a limited search: the cocycles that the engine
\* records give every atom a closed and nontrivial class space of the full
\* rank, and the composed diagram is the textbook diagram of the whole graph.
ComposedDiagramExact ==
  /\ outcome \notin {"atom refused", "diagrams differ"}
  /\ collected # EmptyBag /\ request.kind = "program" =>
       collected = OracleBars(Terminal(request), 1)

\* README.md, result-sensitive persistence programs: PersistenceProgram
\* compiles a sparse graph with max_dim = 1 into checked graph atoms, and can
\* refine a block at a zero-filtration simplex separator.
CompileAccepts == outcome # "composition refused"
=============================================================================
