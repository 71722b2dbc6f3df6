------------------------- MODULE PersistenceProgram -------------------------
(***************************************************************************)
(* A persistence program (holos-tda/src/program) keeps an exact diagram    *)
(* for a sparse weighted graph and moves it to new weights.  The graph is  *)
(* cut into atoms along its articulation vertices and its zero simplices.  *)
(* Each cyclic atom has a checked reduction of its own, and a region: the  *)
(* weights for which that reduction is still the right one.  An update     *)
(* reuses an atom whose region holds, repairs one whose region ended, and  *)
(* compiles the whole program anew when the listed edges, the threshold    *)
(* membership or a separator changed.                                      *)
(*                                                                         *)
(* The module has no variables: a program is a record, an operation maps   *)
(* it to the record that Rust's &mut self holds when the call returns,     *)
(* with "Ok" or "Err".  ProgramSession, DiagramState and ProgramTrace are  *)
(* the state machines over these records.                                  *)
(*                                                                         *)
(* Abstracted data.  The weights of one atom are a member of Locals; all   *)
(* that an update can keep only if it is the same (vertices, listed edges, *)
(* threshold membership, separators) is a member of Shapes.  A checked     *)
(* reduction is a member of Certs: Accept gives the weights its region     *)
(* holds for, Fresh the one a compilation builds, Repair the one a repair  *)
(* reaches (ReductionCertificate checks that these are exact).  A diagram  *)
(* is the weights it was computed from: it is the diagram of a graph       *)
(* exactly when it was computed from that graph's weights.                 *)
(***************************************************************************)
EXTENDS Integers, FiniteSets

CONSTANTS
  Atoms,       \* info_index of every cyclic atom of some shape
  Shapes,      \* vertex set, listed edges, threshold membership, separators
  AtomsOf,     \* [Shapes -> SUBSET Atoms]: the cyclic atoms of a shape
  Locals,      \* the weights one atom can have
  Certs,       \* checked reductions of one atom
  Accept,      \* [Certs -> SUBSET Locals]: the region of a reduction
  Fresh,       \* [Locals -> Certs]: the reduction a compilation builds
  Repair,      \* [Certs -> [Locals -> Certs]]: the one a repair reaches
  Splits,      \* [Locals -> SUBSET Locals]: weights at which the class
               \* spaces of the first do not survive a reweighting
  TooLarge     \* SUBSET Certs: reductions over the CertificateLimits

\* Weights are in the region of the reduction built for them.
ASSUME ProgramAssumption ==
  /\ Atoms \subseteq Nat
  /\ AtomsOf \in [Shapes -> SUBSET Atoms]
  /\ Accept \in [Certs -> SUBSET Locals]
  /\ Fresh \in [Locals -> Certs]
  /\ Repair \in [Certs -> [Locals -> Certs]]
  /\ Splits \in [Locals -> SUBSET Locals]
  /\ TooLarge \subseteq Certs
  /\ \A l \in Locals : l \in Accept[Fresh[l]]
  /\ \A c \in Certs, l \in Locals : l \in Accept[Repair[c][l]]

\* A graph: its shape and the weights of its atoms.
Graphs == UNION {[shape : {s}, weight : [AtomsOf[s] -> Locals]] : s \in Shapes}

\* The diagram computed with h0 from one graph and each atom's bars from
\* the weights it has there.
DiagramOf(g) == [h0 |-> g, bars |-> g.weight]

Diagrams == [h0 : Graphs, bars : UNION {[S -> Locals] : S \in SUBSET Atoms}]

\* ProgramAtomState: the weights its artifact and class spaces are bound
\* to, its reduction, and the reduction its region was compiled from.
AtomStates == [local : Locals, cert : Certs, region : Certs]

Programs ==
  [graph : Graphs, atoms : UNION {[S -> AtomStates] : S \in SUBSET Atoms},
   result : Diagrams]

-----------------------------------------------------------------------------
(* Compilation *)

CompileFails(g) == \E a \in AtomsOf[g.shape] : Fresh[g.weight[a]] \in TooLarge

Compile(g) ==
  [graph  |-> g,
   atoms  |-> [a \in AtomsOf[g.shape] |->
                 [local  |-> g.weight[a],
                  cert   |-> Fresh[g.weight[a]],
                  region |-> Fresh[g.weight[a]]]],
   result |-> DiagramOf(g)]

\* compose_result: h0 from the graph, bars from the atoms' class spaces,
\* whatever weights those are of.
Compose(g, atoms) == [h0 |-> g, bars |-> [a \in DOMAIN atoms |-> atoms[a].local]]

-----------------------------------------------------------------------------
(* One update *)

TopologyChanged(p, g) == g.shape # p.graph.shape

\* Atoms with an edge whose bits differ from the program's graph.
Touched(p, g) == {a \in DOMAIN p.atoms : g.weight[a] # p.graph.weight[a]}

\* reusable_explanation: the region holds and the class spaces survive.
Reusable(s, l) == l \in Accept[s.region] /\ l \notin Splits[s.local]

Reweighted(s, l) == [s EXCEPT !.local = l]

\* Mutant of Repaired: the region compiled before the repair is kept.
RepairedInOldRegion(s, l) == [s EXCEPT !.local = l, !.cert = Repair[s.cert][l]]

Repaired(s, l) ==
  [local |-> l, cert |-> Repair[s.cert][l], region |-> Repair[s.cert][l]]

UpdatedAtom(s, l) == IF Reusable(s, l) THEN Reweighted(s, l) ELSE Repaired(s, l)

AtomFails(s, l) == ~Reusable(s, l) /\ Repair[s.cert][l] \in TooLarge

Failing(p, g) == {a \in Touched(p, g) : AtomFails(p.atoms[a], g.weight[a])}

\* The atoms are visited in order, and the first error returns.
Reached(p, g) ==
  {a \in Touched(p, g) : \A b \in Failing(p, g) : a < b}

AdvancedAtoms(p, g) ==
  [a \in DOMAIN p.atoms |->
     IF a \in Reached(p, g) THEN UpdatedAtom(p.atoms[a], g.weight[a])
                            ELSE p.atoms[a]]

Ok(p)  == [ok |-> TRUE, program |-> p]
Err(p) == [ok |-> FALSE, program |-> p]

\* finish_weight_update: the graph is assigned before the composition,
\* which checks cocycles and can fail, and the result before the class
\* correspondence, which can fail too.
FinishWeightUpdate(p, g, atoms) ==
  LET moved == [p EXCEPT !.graph = g, !.atoms = atoms]
      done  == [moved EXCEPT !.result = Compose(g, atoms)]
  IN  {Err(moved), Err(done), Ok(done)}

\* recompile_update: the replacement is assigned last, after all that may
\* fail, its own composition and the correspondence included.
RecompileUpdate(p, g) ==
  {Err(p)} \cup (IF CompileFails(g) THEN {} ELSE {Ok(Compile(g))})

\* advance_with: the outcomes a call may have.
Advance(p, g) ==
  IF TopologyChanged(p, g) THEN RecompileUpdate(p, g)
  ELSE IF Failing(p, g) # {}
       THEN {Err([p EXCEPT !.atoms = AdvancedAtoms(p, g)])}
       ELSE FinishWeightUpdate(p, g, AdvancedAtoms(p, g))

\* Mutant of UpdateMode: an atom in its region counts as reused even when
\* its class spaces had to be rebuilt.
UpdateModeByRegion(p, g) ==
  IF TopologyChanged(p, g) THEN "Recompiled"
  ELSE IF \A a \in Touched(p, g) : g.weight[a] \in Accept[p.atoms[a].region]
       THEN "Reused" ELSE "Repaired"

\* ProgramUpdate.mode of a successful update.
UpdateMode(p, g) ==
  IF TopologyChanged(p, g) THEN "Recompiled"
  ELSE IF \A a \in Touched(p, g) : Reusable(p.atoms[a], g.weight[a])
       THEN "Reused" ELSE "Repaired"

\* Mutant of AdvanceBatch: the program itself advances.
AdvanceBatchInPlace(p, g1, g2) ==
  UNION {IF ~o.ok THEN {o} ELSE Advance(o.program, g2) : o \in Advance(p, g1)}

\* advance_batch_with: a copy advances, and replaces the program at the end.
AdvanceBatch(p, g1, g2) ==
  UNION {IF ~o.ok THEN {Err(p)}
         ELSE {IF r.ok THEN r ELSE Err(p) : r \in Advance(o.program, g2)}
           : o \in Advance(p, g1)}

-----------------------------------------------------------------------------
(* Reading the program at other weights *)

\* evaluate_diagram: the regions alone, with no atom's stored weights.
Evaluable(p, g) ==
  /\ ~TopologyChanged(p, g)
  /\ \A a \in DOMAIN p.atoms : g.weight[a] \in Accept[p.atoms[a].region]

\* Every atom's artifact is bound to the weights of the program's graph,
\* its region holds there, and the result was composed from these atoms.
Sound(p) ==
  /\ DOMAIN p.atoms = AtomsOf[p.graph.shape]
  /\ \A a \in DOMAIN p.atoms :
       /\ p.atoms[a].local = p.graph.weight[a]
       /\ p.atoms[a].region = p.atoms[a].cert
       /\ p.graph.weight[a] \in Accept[p.atoms[a].region]
  /\ p.result = DiagramOf(p.graph)

-----------------------------------------------------------------------------
(* The captured form of a program (program_wire): the graph it binds, the   *)
(* composed diagram and the atlas of every cyclic atom.  A verifier checks  *)
(* it against a graph and goes on from it without reducing anything.        *)

\* ProgramArtifact::capture: the graph it binds, the diagram, the atlases.
Capture(p) ==
  [graph   |-> p.graph,
   diagram |-> p.result,
   atoms   |-> [a \in DOMAIN p.atoms |->
                  [local |-> p.atoms[a].local, cert |-> p.atoms[a].cert]]]

\* ProgramArtifact::verify against a graph: the input binding, the
\* decomposition, every atlas, and the composed diagram.
Verifies(art, g) ==
  /\ art.graph = g
  /\ DOMAIN art.atoms = AtomsOf[g.shape]
  /\ \A a \in DOMAIN art.atoms :
       /\ art.atoms[a].local = g.weight[a]
       /\ art.atoms[a].local \in Accept[art.atoms[a].cert]
  /\ art.diagram = Compose(g, art.atoms)

\* from_verified_parts: every region is compiled from the atlas again.
Loaded(art, g) ==
  [graph  |-> g,
   atoms  |-> [a \in DOMAIN art.atoms |->
                 [local  |-> art.atoms[a].local,
                  cert   |-> art.atoms[a].cert,
                  region |-> art.atoms[a].cert]],
   result |-> Compose(g, art.atoms)]

Artifacts ==
  [graph : Graphs, diagram : Diagrams,
   atoms : UNION {[S -> [local : Locals, cert : Certs]] : S \in SUBSET Atoms}]
=============================================================================
