---------------------------- MODULE ProgramProofs ----------------------------
(***************************************************************************)
(* Proofs about a persistence program and its owners, for every set of     *)
(* atoms, weights, regions and repairs: what ProgramSession promises, what *)
(* the diagram-only state answers, and which of a producer's traces its    *)
(* verifier accepts, ending with its program.  And about one of its        *)
(* atoms, for every set of weights: the few guards of its region imply all *)
(* comparisons of its reduction, so that what is accepted is legal.        *)
(***************************************************************************)
EXTENDS ProgramSession, DiagramState, ProgramTrace, CertifiedAtom, SetFacts

\* The atoms of a program are those of its graph's shape, torn or not.
Shaped(p) == p \in Programs /\ DOMAIN p.atoms = AtomsOf[p.graph.shape]

\* The inductive invariant: a program that is not torn is sound, and its
\* artifact is what a capture would give; a checkpoint keeps what it saved.
IInv ==
  /\ Shaped(program)
  /\ artifact \in Artifacts
  /\ saved \in [program : Programs, torn : BOOLEAN]
  /\ Shaped(saved.program)
  /\ torn \in BOOLEAN
  /\ last \in Endings
  /\ ~torn => Sound(program) /\ artifact = Capture(program)
  /\ ~saved.torn => Sound(saved.program)

-----------------------------------------------------------------------------
(* Graphs, compilation and composition *)

\* The fields of a graph.
LEMMA GraphFields ==
  ASSUME NEW g \in Graphs
  PROVE  /\ g.shape \in Shapes
         /\ AtomsOf[g.shape] \in SUBSET Atoms
         /\ g.weight \in [AtomsOf[g.shape] -> Locals]
<1>1. PICK s \in Shapes : g \in [shape : {s}, weight : [AtomsOf[s] -> Locals]]
  BY DEF Graphs
<1>2. g.shape = s /\ g.weight \in [AtomsOf[s] -> Locals]
  BY <1>1
<1>3. AtomsOf[s] \in SUBSET Atoms
  BY ProgramAssumption
<1> QED BY <1>2, <1>3

\* A composition of states of atoms is a diagram.
LEMMA ComposeTyped ==
  ASSUME NEW g \in Graphs, NEW S \in SUBSET Atoms,
         NEW atoms \in [S -> AtomStates]
  PROVE  Compose(g, atoms) \in Diagrams
<1>1. [a \in DOMAIN atoms |-> atoms[a].local] \in [S -> Locals]
  BY DEF AtomStates
<1> QED BY <1>1 DEF Compose, Diagrams

\* A program just compiled is sound: every certificate and region is fresh.
LEMMA CompileSound ==
  ASSUME NEW g \in Graphs
  PROVE  Shaped(Compile(g)) /\ Sound(Compile(g)) /\ Compile(g).graph = g
<1> DEFINE S == AtomsOf[g.shape]
           atoms == [a \in S |-> [local  |-> g.weight[a],
                                  cert   |-> Fresh[g.weight[a]],
                                  region |-> Fresh[g.weight[a]]]]
<1>1. S \in SUBSET Atoms /\ g.weight \in [S -> Locals]
  BY GraphFields
<1>2. \A a \in S : g.weight[a] \in Locals /\ Fresh[g.weight[a]] \in Certs
  BY <1>1, ProgramAssumption
<1>3. atoms \in [S -> AtomStates]
  BY <1>2 DEF AtomStates
<1>4. DiagramOf(g) \in Diagrams
  BY <1>1 DEF DiagramOf, Diagrams
<1>5. Compile(g) = [graph |-> g, atoms |-> atoms, result |-> DiagramOf(g)]
  BY DEF Compile
<1>6. Compile(g) \in Programs
  BY <1>1, <1>3, <1>4, <1>5 DEF Programs
<1>7. Sound(Compile(g))
  <2>1. \A a \in S : g.weight[a] \in Accept[Fresh[g.weight[a]]]
    BY <1>2, ProgramAssumption
  <2>2. \A a \in S : /\ atoms[a].local = g.weight[a]
                     /\ atoms[a].region = Fresh[g.weight[a]]
                     /\ atoms[a].cert = Fresh[g.weight[a]]
    OBVIOUS
  <2>3. DOMAIN atoms = S
    OBVIOUS
  <2> HIDE DEF atoms
  <2>4. /\ Compile(g).graph = g
        /\ Compile(g).atoms = atoms
        /\ Compile(g).result = DiagramOf(g)
    BY <1>5
  <2> QED BY <2>1, <2>2, <2>3, <2>4 DEF Sound
<1> QED BY <1>5, <1>6, <1>7 DEF Shaped

-----------------------------------------------------------------------------
(* One update *)

\* Every atom an update reaches is left at its new weights, the others as
\* they were, and all of them are atoms.
LEMMA AdvancedAtomsTyped ==
  ASSUME NEW p, Shaped(p), NEW g \in Graphs, ~TopologyChanged(p, g)
  PROVE  AdvancedAtoms(p, g) \in [AtomsOf[g.shape] -> AtomStates]
<1> DEFINE S == AtomsOf[g.shape]
<1>1. g.weight \in [S -> Locals] /\ p.graph.shape = g.shape
  BY GraphFields DEF TopologyChanged
<1>2. p.atoms \in [S -> AtomStates]
  BY <1>1 DEF Shaped, Programs
<1>3. ASSUME NEW a \in S
      PROVE  UpdatedAtom(p.atoms[a], g.weight[a]) \in AtomStates
  <2> DEFINE s == p.atoms[a]
             l == g.weight[a]
  <2>1. s \in AtomStates /\ l \in Locals
    BY <1>1, <1>2
  <2>2. Reweighted(s, l) \in AtomStates
    BY <2>1 DEF Reweighted, AtomStates
  <2>3. Repair[s.cert][l] \in Certs
    BY <2>1, ProgramAssumption DEF AtomStates
  <2>4. Repaired(s, l) \in AtomStates
    BY <2>1, <2>3 DEF Repaired, AtomStates
  <2> QED BY <2>2, <2>4 DEF UpdatedAtom
<1>4. DOMAIN p.atoms = S
  BY <1>2
<1> QED BY <1>2, <1>3, <1>4 DEF AdvancedAtoms

\* An atom bound to the program's graph is bound to the new one after an
\* update with no error, inside the region of its reduction.
LEMMA AdvancedAtomsSound ==
  ASSUME NEW p, Shaped(p), Sound(p), NEW g \in Graphs,
         ~TopologyChanged(p, g), Failing(p, g) = {},
         NEW a \in AtomsOf[g.shape]
  PROVE  LET s == AdvancedAtoms(p, g)[a]
         IN  /\ s.local = g.weight[a]
             /\ s.region = s.cert
             /\ g.weight[a] \in Accept[s.region]
<1> DEFINE old == p.atoms[a]
           l   == g.weight[a]
           s   == AdvancedAtoms(p, g)[a]
<1>1. p.graph.shape = g.shape /\ a \in DOMAIN p.atoms
  BY DEF TopologyChanged, Shaped
<1>2. l \in Locals /\ old \in AtomStates
  <2>1. g.weight \in [AtomsOf[g.shape] -> Locals]
    BY GraphFields
  <2>2. p.atoms \in [AtomsOf[g.shape] -> AtomStates]
    BY <1>1 DEF Shaped, Programs
  <2> QED BY <2>1, <2>2
<1>3. /\ old.local = p.graph.weight[a]
      /\ old.region = old.cert
      /\ p.graph.weight[a] \in Accept[old.region]
  BY <1>1 DEF Sound
<1>4. CASE a \in Touched(p, g)
  <2>1. a \in Reached(p, g) /\ s = UpdatedAtom(old, l)
    BY <1>1, <1>4 DEF Reached, AdvancedAtoms
  <2>2. CASE Reusable(old, l)
    <3>1. s = [old EXCEPT !.local = l]
      BY <2>1, <2>2 DEF UpdatedAtom, Reweighted
    <3>2. s.local = l /\ s.region = old.region /\ s.cert = old.cert
      BY <3>1, <1>2 DEF AtomStates
    <3> QED BY <2>2, <3>2, <1>3 DEF Reusable
  <2>3. CASE ~Reusable(old, l)
    <3>1. s = Repaired(old, l)
      BY <2>1, <2>3 DEF UpdatedAtom
    <3>2. s.local = l /\ s.region = Repair[old.cert][l] /\ s.cert = Repair[old.cert][l]
      BY <3>1 DEF Repaired
    <3>3. old.cert \in Certs
      BY <1>2 DEF AtomStates
    <3> QED BY <3>2, <3>3, <1>2, ProgramAssumption
  <2> QED BY <2>2, <2>3
<1>5. CASE a \notin Touched(p, g)
  <2>1. s = old
    BY <1>1, <1>5 DEF Reached, AdvancedAtoms
  <2>2. l = p.graph.weight[a]
    BY <1>1, <1>5 DEF Touched
  <2> QED BY <2>1, <2>2, <1>3
<1> QED BY <1>4, <1>5

\* What a caller may count on, whatever the outcome.
LEMMA AdvanceOutcome ==
  ASSUME NEW p, Shaped(p), NEW g \in Graphs, NEW o \in Advance(p, g)
  PROVE  /\ o.ok \in BOOLEAN
         /\ Shaped(o.program)
         /\ o.ok => o.program.graph = g
         /\ o.ok /\ (Sound(p) \/ TopologyChanged(p, g)) => Sound(o.program)
<1>1. CASE TopologyChanged(p, g)
  <2>1. o = Err(p) \/ o = Ok(Compile(g))
    BY <1>1 DEF Advance, RecompileUpdate
  <2>2. /\ Err(p).ok = FALSE /\ Err(p).program = p
        /\ Ok(Compile(g)).ok = TRUE /\ Ok(Compile(g)).program = Compile(g)
    BY DEF Err, Ok
  <2>3. CASE o = Err(p)
    BY <2>2, <2>3
  <2>4. CASE o = Ok(Compile(g))
    BY <2>2, <2>4, CompileSound
  <2> QED BY <2>1, <2>3, <2>4
<1>2. CASE ~TopologyChanged(p, g)
  <2> DEFINE S     == AtomsOf[g.shape]
             atoms == AdvancedAtoms(p, g)
             moved == [p EXCEPT !.graph = g, !.atoms = atoms]
             done  == [moved EXCEPT !.result = Compose(g, atoms)]
             partway == [p EXCEPT !.atoms = atoms]
  <2>1. atoms \in [S -> AtomStates] /\ S \in SUBSET Atoms
    BY <1>2, AdvancedAtomsTyped, GraphFields
  <2>2. Compose(g, atoms) \in Diagrams
    BY <2>1, ComposeTyped
  <2>3. p \in Programs /\ p.graph.shape = g.shape
    BY <1>2 DEF Shaped, TopologyChanged
  <2>4. Shaped(partway)
    BY <2>1, <2>3 DEF Shaped, Programs
  <2>5. Shaped(moved)
    BY <2>1, <2>3 DEF Shaped, Programs
  <2>6. Shaped(done) /\ done.graph = g /\ done.atoms = atoms
                     /\ done.result = Compose(g, atoms)
    BY <2>1, <2>2, <2>3 DEF Shaped, Programs
  <2>7. CASE Failing(p, g) # {}
    <3>1. o = Err(partway)
      BY <1>2, <2>7 DEF Advance
    <3> QED BY <3>1, <2>4 DEF Err
  <2>8. CASE Failing(p, g) = {}
    <3>1. o = Ok(done) \/ o = Err(moved) \/ o = Err(done)
      BY <1>2, <2>8 DEF Advance, FinishWeightUpdate
    <3>2. ASSUME Sound(p) PROVE Sound(done)
      <4>1. \A a \in S : /\ atoms[a].local = g.weight[a]
                         /\ atoms[a].region = atoms[a].cert
                         /\ g.weight[a] \in Accept[atoms[a].region]
        BY <1>2, <2>8, <3>2, AdvancedAtomsSound
      <4>2. Compose(g, atoms) = DiagramOf(g)
        <5>1. g.weight \in [S -> Locals]
          BY GraphFields
        <5>2. [a \in DOMAIN atoms |-> atoms[a].local] = g.weight
          BY <2>1, <4>1, <5>1
        <5> QED BY <5>2 DEF Compose, DiagramOf
      <4>3. DOMAIN atoms = S
        BY <2>1
      <4> HIDE DEF atoms, done, S
      <4>4. \A a \in DOMAIN done.atoms :
              /\ done.atoms[a].local = done.graph.weight[a]
              /\ done.atoms[a].region = done.atoms[a].cert
              /\ done.graph.weight[a] \in Accept[done.atoms[a].region]
        BY <2>6, <4>1, <4>3
      <4>5. DOMAIN done.atoms = AtomsOf[done.graph.shape]
        BY <2>6, <4>3 DEF S
      <4> QED BY <2>6, <4>2, <4>4, <4>5 DEF Sound
    <3>3. /\ Err(moved).ok = FALSE /\ Err(moved).program = moved
          /\ Err(done).ok = FALSE /\ Err(done).program = done
          /\ Ok(done).ok = TRUE /\ Ok(done).program = done
      BY DEF Err, Ok
    <3> HIDE DEF moved, done
    <3>4. CASE o = Ok(done)
      BY <1>2, <3>2, <3>3, <3>4, <2>6
    <3>5. CASE o = Err(moved)
      BY <3>3, <3>5, <2>5
    <3>6. CASE o = Err(done)
      BY <3>3, <3>6, <2>6
    <3> QED BY <3>1, <3>4, <3>5, <3>6
  <2> QED BY <2>7, <2>8
<1> QED BY <1>1, <1>2

\* A batch succeeds with the program its two updates give one after the
\* other, and fails with the program it was given.
LEMMA BatchOutcome ==
  ASSUME NEW p, NEW g1, NEW g2, NEW o \in AdvanceBatch(p, g1, g2)
  PROVE  \/ o = Err(p)
         \/ \E o1 \in Advance(p, g1) :
              o1.ok /\ o.ok /\ o \in Advance(o1.program, g2)
<1>1. PICK o1 \in Advance(p, g1) :
        o \in IF ~o1.ok THEN {Err(p)}
              ELSE {IF r.ok THEN r ELSE Err(p) : r \in Advance(o1.program, g2)}
  BY DEF AdvanceBatch
<1>2. CASE ~o1.ok
  BY <1>1, <1>2
<1>3. CASE o1.ok
  <2>1. PICK r \in Advance(o1.program, g2) : o = IF r.ok THEN r ELSE Err(p)
    BY <1>1, <1>3
  <2> QED BY <1>3, <2>1
<1> QED BY <1>2, <1>3

\* A call whose artifact is captured is the call, or has failed with its
\* program.
LEMMA CapturedOutcome ==
  ASSUME NEW outcomes, NEW o \in Captured(outcomes)
  PROVE  \/ o \in outcomes
         \/ ~o.ok /\ \E o1 \in outcomes : o.program = o1.program
<1>1. CASE o \in outcomes
  BY <1>1
<1>2. CASE o \in {Err(o1.program) : o1 \in outcomes}
  BY <1>2 DEF Err
<1> QED BY <1>1, <1>2 DEF Captured

-----------------------------------------------------------------------------
(* Artifacts *)

\* An artifact captured from a program is one.
LEMMA CaptureTyped ==
  ASSUME NEW p, Shaped(p)
  PROVE  Capture(p) \in Artifacts
<1> DEFINE S == AtomsOf[p.graph.shape]
           atoms == [a \in S |-> [local |-> p.atoms[a].local, cert |-> p.atoms[a].cert]]
<1>1. p.graph \in Graphs /\ p.result \in Diagrams /\ p.atoms \in [S -> AtomStates]
  BY DEF Shaped, Programs
<1>2. S \in SUBSET Atoms
  BY <1>1, GraphFields
<1>3. atoms \in [S -> [local : Locals, cert : Certs]]
  BY <1>1 DEF AtomStates
<1>4. Capture(p) = [graph |-> p.graph, diagram |-> p.result, atoms |-> atoms]
  BY <1>1 DEF Capture
<1> QED BY <1>1, <1>2, <1>3, <1>4 DEF Artifacts

\* A verifier that accepts an artifact goes on from a sound program, whose
\* capture is that artifact again.
LEMMA LoadedSound ==
  ASSUME NEW art \in Artifacts, NEW g \in Graphs, Verifies(art, g)
  PROVE  /\ Shaped(Loaded(art, g))
         /\ Sound(Loaded(art, g))
         /\ Capture(Loaded(art, g)) = art
<1> DEFINE S == AtomsOf[g.shape]
           atoms == [a \in S |-> [local  |-> art.atoms[a].local,
                                  cert   |-> art.atoms[a].cert,
                                  region |-> art.atoms[a].cert]]
           p == Loaded(art, g)
<1>1. /\ S \in SUBSET Atoms
      /\ g.weight \in [S -> Locals]
      /\ art.graph = g
      /\ DOMAIN art.atoms = S
  BY GraphFields DEF Verifies
<1>2. art.atoms \in [S -> [local : Locals, cert : Certs]]
  BY <1>1 DEF Artifacts
<1>3. atoms \in [S -> AtomStates]
  BY <1>2 DEF AtomStates
<1>4. Compose(g, art.atoms) = DiagramOf(g) /\ DiagramOf(g) \in Diagrams
  <2>1. [a \in DOMAIN art.atoms |-> art.atoms[a].local] = g.weight
    BY <1>1 DEF Verifies
  <2>2. DiagramOf(g) \in Diagrams
    BY <1>1 DEF DiagramOf, Diagrams
  <2> QED BY <2>1, <2>2 DEF Compose, DiagramOf
<1>5. p = [graph |-> g, atoms |-> atoms, result |-> DiagramOf(g)]
  BY <1>1, <1>4 DEF Loaded
<1>6. Shaped(p)
  BY <1>1, <1>3, <1>4, <1>5, SMTT(60) DEF Shaped, Programs
<1>7. \A a \in S : /\ atoms[a].local = g.weight[a]
                   /\ atoms[a].region = atoms[a].cert
                   /\ g.weight[a] \in Accept[atoms[a].region]
  <2>1. ASSUME NEW a \in S
        PROVE  /\ art.atoms[a].local = g.weight[a]
               /\ art.atoms[a].local \in Accept[art.atoms[a].cert]
    BY <1>1, <2>1 DEF Verifies
  <2>2. ASSUME NEW a \in S
        PROVE  /\ atoms[a].local = art.atoms[a].local
               /\ atoms[a].cert = art.atoms[a].cert
               /\ atoms[a].region = art.atoms[a].cert
    OBVIOUS
  <2> HIDE DEF atoms
  <2>3. ASSUME NEW a \in S
        PROVE  /\ atoms[a].local = g.weight[a]
               /\ atoms[a].region = atoms[a].cert
               /\ g.weight[a] \in Accept[atoms[a].region]
    BY <2>1, <2>2, Zenon
  <2> QED BY <2>3
<1>8. Sound(p)
  <2>1. DOMAIN atoms = S
    OBVIOUS
  <2>2. p.graph = g /\ p.atoms = atoms /\ p.result = DiagramOf(g)
    BY <1>5
  <2> HIDE DEF atoms, p
  <2> QED BY <1>7, <2>1, <2>2 DEF Sound
<1>9. Capture(p) = art
  <2>1. [a \in S |-> [local |-> atoms[a].local, cert |-> atoms[a].cert]] = art.atoms
    BY <1>2
  <2>2. art = [graph |-> art.graph, diagram |-> art.diagram, atoms |-> art.atoms]
    BY DEF Artifacts
  <2>3. art.diagram = DiagramOf(g)
    BY <1>4 DEF Verifies
  <2>4. p.graph = g /\ p.atoms = atoms /\ p.result = DiagramOf(g) /\ DOMAIN atoms = S
    BY <1>5
  <2>5. Capture(p) = [graph |-> g, diagram |-> DiagramOf(g),
                      atoms |-> [a \in S |-> [local |-> atoms[a].local,
                                              cert |-> atoms[a].cert]]]
    <3> HIDE DEF atoms, p
    <3> QED BY <2>4 DEF Capture
  <2> QED BY <2>1, <2>2, <2>3, <2>5, <1>1
<1> QED BY <1>6, <1>8, <1>9

-----------------------------------------------------------------------------
(* The owner *)

\* The owner starts with a program just compiled, and its artifact.
LEMMA InitIInv == Init => IInv
<1> SUFFICES ASSUME Init PROVE IInv
  OBVIOUS
<1>1. PICK g \in Graphs :
        /\ program = Compile(g)
        /\ artifact = Capture(program)
        /\ saved = [program |-> program, torn |-> FALSE]
        /\ torn = FALSE
        /\ last = "other"
  BY DEF Init
<1>2. Shaped(program) /\ Sound(program)
  BY <1>1, CompileSound
<1>3. artifact \in Artifacts
  BY <1>1, <1>2, CaptureTyped
<1> QED BY <1>1, <1>2, <1>3 DEF IInv, Endings, Shaped

\* A call that ends with a program of one Advance, as its own or as the
\* caller's next one.
LEMMA AdvancedKeepsIInv ==
  ASSUME IInv, NEW g \in Graphs, NEW o \in Advance(program, g), o.ok,
         program' = o.program, artifact' = Capture(o.program),
         torn' = TornAfter(program, g, o), last' \in Endings, UNCHANGED saved
  PROVE  IInv'
<1>1. Shaped(o.program) /\ (Sound(program) \/ TopologyChanged(program, g)
                              => Sound(o.program))
  BY AdvanceOutcome DEF IInv
<1>2. torn' = (torn /\ ~TopologyChanged(program, g))
  BY DEF TornAfter
<1>3. torn' \in BOOLEAN /\ (~torn' => Sound(o.program))
  BY <1>1, <1>2 DEF IInv, TopologyChanged
<1>4. Capture(o.program) \in Artifacts
  BY <1>1, CaptureTyped
<1> QED BY <1>1, <1>3, <1>4 DEF IInv, Shaped, Sound

\* Updates, saves, kills and restarts keep the owner's invariant.
LEMMA NextIInv == IInv /\ [Next]_vars => IInv'
<1> SUFFICES ASSUME IInv, [Next]_vars PROVE IInv'
  OBVIOUS
<1>1. ASSUME NEW g \in Graphs, Update(g) PROVE IInv'
  <2>1. PICK o \in Captured(Advance(program, g)) :
          /\ program' = o.program
          /\ artifact' = IF o.ok THEN Capture(o.program) ELSE artifact
          /\ torn' = TornAfter(program, g, o)
          /\ last' = IF o.ok THEN "advanced" ELSE "failed"
          /\ UNCHANGED saved
    BY <1>1 DEF Update
  <2>2. CASE o.ok
    <3>1. o \in Advance(program, g)
      BY <2>2, CapturedOutcome
    <3> QED BY <2>1, <2>2, <3>1, AdvancedKeepsIInv DEF Endings
  <2>3. CASE ~o.ok
    <3>1. Shaped(o.program)
      <4>1. PICK o1 \in Advance(program, g) : o.program = o1.program
        BY CapturedOutcome
      <4>2. Shaped(o1.program)
        BY AdvanceOutcome DEF IInv
      <4> QED BY <4>1, <4>2
    <3>2. torn' = (torn \/ o.program # program)
      BY <2>1, <2>3 DEF TornAfter
    <3>3. ~torn' => ~torn /\ program' = program /\ artifact' = artifact
      BY <2>1, <2>3, <3>2
    <3>4. torn' \in BOOLEAN
      BY <3>2 DEF IInv
    <3>5. last' \in Endings
      BY <2>1, <2>3 DEF Endings
    <3>6. Shaped(program)'
      BY <2>1, <3>1 DEF Shaped
    <3>7. ~torn' => Sound(program') /\ artifact' = Capture(program')
      BY <3>3 DEF IInv
    <3> QED BY <2>1, <2>3, <3>4, <3>5, <3>6, <3>7 DEF IInv
  <2> QED BY <2>2, <2>3
<1>2. ASSUME NEW g \in Graphs, Fork(g) PROVE IInv'
  <2>1. PICK o \in Captured(Advance(program, g)) :
          /\ last' = IF o.ok THEN "advanced" ELSE "refused"
          /\ UNCHANGED saved
          /\ IF o.ok
             THEN /\ program' = o.program
                  /\ artifact' = Capture(o.program)
                  /\ torn' = TornAfter(program, g, o)
             ELSE UNCHANGED <<program, artifact, torn>>
    BY <1>2 DEF Fork
  <2>2. CASE o.ok
    <3>1. o \in Advance(program, g)
      BY <2>2, CapturedOutcome
    <3> QED BY <2>1, <2>2, <3>1, AdvancedKeepsIInv DEF Endings
  <2>3. CASE ~o.ok
    BY <2>1, <2>3 DEF IInv, Endings
  <2> QED BY <2>2, <2>3
<1>3. ASSUME NEW g \in Graphs, Load(g) PROVE IInv'
  <2>1. CASE Verifies(artifact, g)
    <3>1. /\ program' = Loaded(artifact, g)
          /\ torn' = FALSE
          /\ last' = "other"
          /\ UNCHANGED <<artifact, saved>>
      BY <1>3, <2>1 DEF Load
    <3>2. /\ Shaped(Loaded(artifact, g))
          /\ Sound(Loaded(artifact, g))
          /\ Capture(Loaded(artifact, g)) = artifact
      BY <2>1, LoadedSound DEF IInv
    <3> QED BY <3>1, <3>2 DEF IInv, Endings
  <2>2. CASE ~Verifies(artifact, g)
    BY <1>3, <2>2 DEF Load, IInv, Endings
  <2> QED BY <2>1, <2>2
<1>4. ASSUME NEW batch \in Batches, UpdateMany(batch[1], batch[2]) PROVE IInv'
  <2> DEFINE g1 == batch[1]
             g2 == batch[2]
  <2>1. g1 \in Graphs /\ g2 \in Graphs
    BY BatchesAssumption
  <2> HIDE DEF g1, g2
  <2>2. PICK o \in Captured(AdvanceBatch(program, g1, g2)) :
          /\ program' = o.program
          /\ artifact' = IF o.ok THEN Capture(o.program) ELSE artifact
          /\ torn' = IF o.ok
                     THEN torn /\ ~TopologyChanged(program, g1) /\ g2.shape = g1.shape
                     ELSE torn \/ o.program # program
          /\ last' \in Endings
          /\ UNCHANGED saved
    BY <1>4 DEF UpdateMany, g1, g2, Endings
  <2>3. CASE ~o.ok
    <3>1. PICK b \in AdvanceBatch(program, g1, g2) : o.program = b.program
      BY CapturedOutcome
    <3>2. Shaped(b.program)
      <4>1. CASE b = Err(program)
        BY <4>1 DEF Err, IInv
      <4>2. ASSUME NEW o1 \in Advance(program, g1), b \in Advance(o1.program, g2)
            PROVE  Shaped(b.program)
        BY <2>1, <4>2, AdvanceOutcome DEF IInv
      <4> QED BY <4>1, <4>2, BatchOutcome
    <3>3. torn' = (torn \/ o.program # program) /\ artifact' = artifact
      BY <2>2, <2>3
    <3>4. torn' \in BOOLEAN
      BY <3>3 DEF IInv
    <3>5. ~torn' => Sound(program') /\ artifact' = Capture(program')
      BY <2>2, <3>3 DEF IInv
    <3>6. Shaped(program)'
      BY <2>2, <3>1, <3>2 DEF Shaped
    <3> QED BY <2>2, <3>3, <3>4, <3>5, <3>6 DEF IInv
  <2>4. CASE /\ o.ok
             /\ \E o1 \in Advance(program, g1) :
                  o1.ok /\ o.ok /\ o \in Advance(o1.program, g2)
    <3>1. PICK o1 \in Advance(program, g1) :
            o1.ok /\ o.ok /\ o \in Advance(o1.program, g2)
      BY <2>4
    <3>2. /\ Shaped(o1.program)
          /\ o1.program.graph = g1
          /\ Sound(program) \/ TopologyChanged(program, g1) => Sound(o1.program)
      BY <2>1, <3>1, AdvanceOutcome DEF IInv
    <3>3. /\ Shaped(o.program)
          /\ Sound(o1.program) \/ TopologyChanged(o1.program, g2)
               => Sound(o.program)
      BY <2>1, <3>1, <3>2, AdvanceOutcome
    <3>4. torn' = (torn /\ ~TopologyChanged(program, g1) /\ g2.shape = g1.shape)
      BY <2>2, <3>1
    <3>5. g2.shape # g1.shape => TopologyChanged(o1.program, g2)
      BY <3>2 DEF TopologyChanged
    <3>6. torn' \in BOOLEAN /\ (~torn' => Sound(o.program))
      BY <3>2, <3>3, <3>4, <3>5 DEF IInv
    <3>7. Capture(o.program) \in Artifacts
      BY <3>3, CaptureTyped
    <3> QED BY <2>2, <3>1, <3>3, <3>6, <3>7 DEF IInv
  <2>5. ASSUME o.ok
        PROVE  \E o1 \in Advance(program, g1) :
                 o1.ok /\ o.ok /\ o \in Advance(o1.program, g2)
    <3>1. o \in AdvanceBatch(program, g1, g2)
      BY <2>5, CapturedOutcome
    <3> QED BY <2>5, <3>1, BatchOutcome DEF Err
  <2> QED BY <2>3, <2>4, <2>5
<1>5. ASSUME Checkpoint PROVE IInv'
  <2>1. saved' = [program |-> program, torn |-> torn]
    BY <1>5 DEF Checkpoint
  <2>2. saved' \in [program : Programs, torn : BOOLEAN]
    BY <2>1 DEF IInv, Shaped
  <2>3. saved'.program = program /\ saved'.torn = torn
    BY <2>1
  <2> QED BY <1>5, <2>2, <2>3 DEF Checkpoint, IInv, Endings
<1>6. ASSUME Restore PROVE IInv'
  <2>1. Capture(saved.program) \in Artifacts
    BY CaptureTyped DEF IInv
  <2>2. saved.torn \in BOOLEAN
    BY DEF IInv
  <2> QED BY <1>6, <2>1, <2>2 DEF Restore, IInv, Endings
<1>7. CASE UNCHANGED vars
  BY <1>7 DEF IInv, vars
<1> QED BY <1>1, <1>2, <1>3, <1>4, <1>5, <1>6, <1>7 DEF Next

\* The strengthened invariant holds of every program, whatever its atoms,
\* regions and repairs (program/update.rs, program_wire).
THEOREM ProgramInvariant == Spec => []IInv
<1>1. Init => IInv
  BY InitIInv
<1>2. IInv /\ [Next]_vars => IInv'
  BY NextIInv
<1> QED BY <1>1, <1>2, PTL DEF Spec

\* Type correctness of the owner's state.
THEOREM SessionTypeCorrect == Spec => []TypeOK
<1>1. IInv => TypeOK
  BY DEF IInv, TypeOK, Shaped
<1> QED BY <1>1, ProgramInvariant, PTL

\* Until a failed update tears it, the program is sound: every atom bound to
\* the current weights inside its region, the result composed from them.
THEOREM ProgramSoundUntilTorn == Spec => []SoundUntilTorn
<1>1. IInv => SoundUntilTorn
  BY DEF IInv, SoundUntilTorn
<1> QED BY <1>1, ProgramInvariant, PTL

\* The artifact of a sound program verifies against its graph, and loading
\* it gives that program back.
LEMMA CaptureLoads ==
  ASSUME NEW p, Shaped(p), Sound(p)
  PROVE  Verifies(Capture(p), p.graph) /\ Loaded(Capture(p), p.graph) = p
<1> DEFINE S == AtomsOf[p.graph.shape]
           atoms == [a \in S |-> [local |-> p.atoms[a].local, cert |-> p.atoms[a].cert]]
           art == Capture(p)
<1>1. p.atoms \in [S -> AtomStates]
  BY DEF Shaped, Programs
<1>2. art.graph = p.graph /\ art.diagram = p.result /\ art.atoms = atoms
  BY <1>1 DEF Capture
<1>3. \A a \in S : /\ atoms[a].local = p.atoms[a].local
                   /\ atoms[a].cert = p.atoms[a].cert
  OBVIOUS
<1>4. \A a \in S : /\ p.atoms[a].local = p.graph.weight[a]
                   /\ p.atoms[a].region = p.atoms[a].cert
                   /\ p.graph.weight[a] \in Accept[p.atoms[a].region]
  BY <1>1 DEF Sound
<1>5. DOMAIN atoms = S
  OBVIOUS
<1>6. Compose(p.graph, atoms) = p.result
  <2>1. p.graph.weight \in [S -> Locals]
    BY GraphFields DEF Shaped, Programs
  <2>2. [a \in S |-> atoms[a].local] = p.graph.weight
    BY <1>3, <1>4, <2>1
  <2>3. p.result = DiagramOf(p.graph)
    BY DEF Sound
  <2> HIDE DEF atoms
  <2> QED BY <2>2, <2>3, <1>5 DEF Compose, DiagramOf
<1>7. Verifies(art, p.graph)
  <2> HIDE DEF atoms, art
  <2> QED BY <1>2, <1>3, <1>4, <1>5, <1>6 DEF Verifies
<1>8. Loaded(art, p.graph) = p
  <2>1. [a \in S |-> [local |-> atoms[a].local, cert |-> atoms[a].cert,
                      region |-> atoms[a].cert]] = p.atoms
    <3>1. \A a \in S : [local |-> atoms[a].local, cert |-> atoms[a].cert,
                        region |-> atoms[a].cert] = p.atoms[a]
      BY <1>1, <1>3, <1>4 DEF AtomStates
    <3> QED BY <1>1, <3>1
  <2>2. p = [graph |-> p.graph, atoms |-> p.atoms, result |-> p.result]
    BY DEF Shaped, Programs
  <2>3. Loaded(art, p.graph) =
          [graph  |-> p.graph,
           atoms  |-> [a \in S |-> [local |-> atoms[a].local, cert |-> atoms[a].cert,
                                    region |-> atoms[a].cert]],
           result |-> p.result]
    <3> HIDE DEF atoms, art
    <3> QED BY <1>2, <1>5, <1>6 DEF Loaded
  <2> QED BY <2>1, <2>2, <2>3
<1> QED BY <1>7, <1>8

\* Whatever calls led to a whole program, its captured artifact verifies and
\* continues it.
THEOREM CapturedArtifactLoads == Spec => []ArtifactLoads
<1>1. IInv => ArtifactLoads
  BY CaptureLoads DEF IInv, ArtifactLoads
<1> QED BY <1>1, ProgramInvariant, PTL

\* A call that works on a copy and fails leaves program and artifact alone.
THEOREM RefusedCallKeepsProgram == Spec => FailedCallKeepsProgram
<1>1. IInv /\ [Next]_vars
        => [last' = "refused" => UNCHANGED <<program, artifact>>]_vars
  <2> SUFFICES ASSUME IInv, Next, last' = "refused"
               PROVE  UNCHANGED <<program, artifact>>
    OBVIOUS
  <2>1. ASSUME NEW g \in Graphs, Update(g) PROVE FALSE
    BY <2>1 DEF Update
  <2>2. ASSUME NEW g \in Graphs, Fork(g) PROVE UNCHANGED <<program, artifact>>
    BY <2>2 DEF Fork
  <2>3. ASSUME NEW g \in Graphs, Load(g) PROVE UNCHANGED <<program, artifact>>
    BY <2>3 DEF Load
  <2>4. ASSUME NEW batch \in Batches, UpdateMany(batch[1], batch[2])
        PROVE  UNCHANGED <<program, artifact>>
    <3>1. PICK o \in AdvanceBatch(program, batch[1], batch[2]) :
            /\ ~o.ok
            /\ program' = o.program
            /\ artifact' = artifact
      <4>1. PICK o \in Captured(AdvanceBatch(program, batch[1], batch[2])) :
              /\ program' = o.program
              /\ artifact' = IF o.ok THEN Capture(o.program) ELSE artifact
              /\ last' = IF o.ok THEN "advanced"
                         ELSE IF o \in AdvanceBatch(program, batch[1], batch[2])
                              THEN "refused" ELSE "failed"
        BY <2>4 DEF UpdateMany
      <4>2. ~o.ok /\ o \in AdvanceBatch(program, batch[1], batch[2])
        BY <4>1
      <4> QED BY <4>1, <4>2
    <3>2. o = Err(program)
      BY <3>1, BatchOutcome
    <3> QED BY <3>1, <3>2 DEF Err
  <2>5. ASSUME Checkpoint \/ Restore PROVE FALSE
    BY <2>5 DEF Checkpoint, Restore
  <2> QED BY <2>1, <2>2, <2>3, <2>4, <2>5 DEF Next
<1> QED BY <1>1, ProgramInvariant, PTL DEF Spec, FailedCallKeepsProgram

-----------------------------------------------------------------------------
(* The diagram-only state *)

\* DiagramIsCurrent is inductive once the state has its types.
DInv ==
  /\ Shaped(lazy)
  /\ graph \in Graphs
  /\ dirty \in BOOLEAN
  /\ DiagramIsCurrent

\* The diagram of a graph is one.
LEMMA DiagramTyped ==
  ASSUME NEW g \in Graphs
  PROVE  DiagramOf(g) \in Diagrams
BY GraphFields DEF DiagramOf, Diagrams

\* The diagram handed out starts as that of its graph.
LEMMA InitDInv == DiagramInit => DInv
<1> SUFFICES ASSUME DiagramInit PROVE DInv
  OBVIOUS
<1>1. PICK g \in Graphs :
        /\ lazy = Compile(g)
        /\ graph = lazy.graph
        /\ diagram = lazy.result
        /\ dirty = FALSE
  BY DEF DiagramInit
<1>2. Shaped(lazy) /\ Sound(lazy) /\ lazy.graph = g
  BY <1>1, CompileSound
<1>3. diagram = DiagramOf(graph)
  BY <1>1, <1>2 DEF Sound
<1> QED BY <1>1, <1>2, <1>3 DEF DInv, DiagramIsCurrent

\* A compilation for the current graph, or no change at all.
LEMMA RecompileDInv ==
  ASSUME DInv, NEW g \in Graphs, Recompile(g)
  PROVE  DInv'
<1>1. CASE CompileFails(g)
  <2>1. UNCHANGED <<lazy, graph, diagram, dirty>>
    BY <1>1 DEF Recompile, dvars
  <2> QED BY <2>1 DEF DInv, DiagramIsCurrent, Shaped, Sound
<1>2. CASE ~CompileFails(g)
  <2>1. lazy' = Compile(g) /\ graph' = g /\ diagram' = Compile(g).result /\ dirty' = FALSE
    BY <1>2 DEF Recompile
  <2>2. Shaped(Compile(g)) /\ Sound(Compile(g)) /\ Compile(g).graph = g
    BY CompileSound
  <2>3. Compile(g).result = DiagramOf(g)
    BY <2>2 DEF Sound
  <2> QED BY <2>1, <2>2, <2>3 DEF DInv, DiagramIsCurrent
<1> QED BY <1>1, <1>2

\* Advancing and recompiling keep it so.
LEMMA NextDInv == DInv /\ [DiagramNext]_dvars => DInv'
<1> SUFFICES ASSUME DInv, [DiagramNext]_dvars PROVE DInv'
  OBVIOUS
<1>1. ASSUME NEW g \in Graphs, AdvanceDiagram(g) PROVE DInv'
  <2>1. CASE Recompile(g)
    BY <2>1, RecompileDInv
  <2>2. CASE UNCHANGED dvars
    BY <2>2 DEF DInv, DiagramIsCurrent, dvars
  <2>3. CASE /\ ~TopologyChanged(lazy, g)
             /\ graph' = g
             /\ diagram' = DiagramOf(g)
             /\ dirty' = TRUE
             /\ UNCHANGED lazy
    <3>1. g.shape = lazy.graph.shape
      BY <2>3 DEF TopologyChanged
    <3> QED BY <2>3, <3>1 DEF DInv, DiagramIsCurrent
  <2> QED BY <1>1, <2>1, <2>2, <2>3 DEF AdvanceDiagram
<1>2. ASSUME Materialize PROVE DInv'
  <2>1. PICK o \in Advance(lazy, graph) :
          IF o.ok /\ o.program.result = diagram
          THEN /\ lazy' = o.program
               /\ dirty' = FALSE
               /\ UNCHANGED <<graph, diagram>>
          ELSE RecompileForMaterialization
    BY <1>2 DEF Materialize
  <2>2. CASE o.ok /\ o.program.result = diagram
    <3>1. /\ Shaped(o.program)
          /\ o.program.graph = graph
          /\ Sound(o.program)
      BY <2>2, AdvanceOutcome DEF DInv, DiagramIsCurrent
    <3> QED BY <2>1, <2>2, <3>1 DEF DInv, DiagramIsCurrent
  <2>3. CASE RecompileForMaterialization
    <3>1. CASE UNCHANGED dvars
      BY <3>1 DEF DInv, DiagramIsCurrent, dvars
    <3>2. CASE lazy' = Compile(graph) /\ dirty' = FALSE /\ UNCHANGED <<graph, diagram>>
      <4>1. Shaped(Compile(graph)) /\ Sound(Compile(graph)) /\ Compile(graph).graph = graph
        BY CompileSound DEF DInv
      <4> QED BY <3>2, <4>1 DEF DInv, DiagramIsCurrent
    <3> QED BY <2>3, <3>1, <3>2 DEF RecompileForMaterialization
  <2> QED BY <2>1, <2>2, <2>3
<1>3. CASE UNCHANGED dvars
  BY <1>3 DEF DInv, DiagramIsCurrent, dvars
<1> QED BY <1>1, <1>2, <1>3 DEF DiagramNext

\* Type correctness of the diagram-only state.
THEOREM DiagramTypeCorrect == DiagramSpec => []DiagramTypeOK
<1>1. DInv => DiagramTypeOK
  BY DiagramTyped DEF DInv, DiagramIsCurrent, DiagramTypeOK, Shaped
<1> QED BY <1>1, InitDInv, NextDInv, PTL DEF DiagramSpec

\* Whatever sequence of evaluations, failed compilations and
\* materializations came before, the diagram is that of the current graph
\* and the program behind it is whole (program/diagram.rs).
THEOREM DiagramAlwaysCurrent == DiagramSpec => []DiagramIsCurrent
<1>1. DInv => DiagramIsCurrent
  BY DEF DInv
<1> QED BY <1>1, InitDInv, NextDInv, PTL DEF DiagramSpec

-----------------------------------------------------------------------------
(* The traces *)

\* One ok update of a sound program, and the step recorded for it.
Follows(p, q, record) ==
  \E g \in Graphs : \E o \in Advance(p, g) :
    o.ok /\ q = o.program /\ record = StepRecord(p, g, q)

Records == {StepRecord(t[1], t[2], t[3]) : t \in Programs \X Graphs \X Programs}

\* The programs the producer went through, the first one compiled: each step
\* leads from one to the next, and the verifier stands at one of them.
History(h) ==
  /\ h \in [1 .. Len(steps) + 1 -> Programs]
  /\ \A k \in 1 .. Len(steps) + 1 : Shaped(h[k]) /\ Sound(h[k])
  /\ \A k \in 1 .. Len(steps) : Follows(h[k], h[k + 1], steps[k])
  /\ producer = h[Len(steps) + 1]
  /\ replayed = h[position + 1]

TInv ==
  /\ steps \in Seq(Records)
  /\ position \in 0 .. Len(steps)
  /\ \A k \in 1 .. position : ~Miscounted(steps[k])
  /\ rejected => position < Len(steps) /\ Miscounted(Step)
  /\ \E h : History(h)

-----------------------------------------------------------------------------
(* One step *)

\* An update that succeeds leaves a sound program of the new graph.
LEMMA OkUpdate ==
  ASSUME NEW p, Shaped(p), Sound(p), NEW g \in Graphs, NEW o \in Advance(p, g), o.ok
  PROVE  Shaped(o.program) /\ Sound(o.program) /\ o.program.graph = g
BY AdvanceOutcome

\* A reused step: every atom touched is reweighted, the others have the
\* weights already, so that reweighting all of them gives the same program.
LEMMA ReusedStep ==
  ASSUME NEW p, Shaped(p), Sound(p), NEW g \in Graphs, NEW o \in Advance(p, g), o.ok,
         UpdateMode(p, g) = "Reused"
  PROVE  LET atoms == [a \in DOMAIN p.atoms |-> Reweighted(p.atoms[a], g.weight[a])]
         IN  /\ ~TopologyChanged(p, g)
             /\ \A a \in Touched(p, g) : Reusable(p.atoms[a], g.weight[a])
             /\ o.program = [graph |-> g, atoms |-> atoms, result |-> Compose(g, atoms)]
<1> DEFINE S == AtomsOf[g.shape]
           atoms == [a \in DOMAIN p.atoms |-> Reweighted(p.atoms[a], g.weight[a])]
<1>1. ~TopologyChanged(p, g)
  BY DEF UpdateMode
<1>2. \A a \in Touched(p, g) : Reusable(p.atoms[a], g.weight[a])
  BY <1>1 DEF UpdateMode
<1>3. Failing(p, g) = {}
  BY <1>2 DEF Failing, AtomFails
<1>4. p.atoms \in [S -> AtomStates] /\ DOMAIN p.atoms = S
  BY <1>1 DEF Shaped, Programs, TopologyChanged
<1>5. ASSUME NEW a \in S
      PROVE  AdvancedAtoms(p, g)[a] = Reweighted(p.atoms[a], g.weight[a])
  <2>1. CASE a \in Touched(p, g)
    <3>1. a \in Reached(p, g)
      BY <1>3, <2>1 DEF Reached
    <3> QED BY <1>2, <1>4, <2>1, <3>1 DEF AdvancedAtoms, UpdatedAtom
  <2>2. CASE a \notin Touched(p, g)
    <3>1. AdvancedAtoms(p, g)[a] = p.atoms[a]
      BY <1>4, <2>2 DEF Reached, AdvancedAtoms
    <3>2. p.atoms[a].local = g.weight[a]
      BY <1>4, <2>2 DEF Touched, Sound
    <3>3. p.atoms[a] \in AtomStates
      BY <1>4
    <3>4. [p.atoms[a] EXCEPT !.local = g.weight[a]] = p.atoms[a]
      BY <3>2, <3>3 DEF AtomStates
    <3> QED BY <3>1, <3>4 DEF Reweighted
  <2> QED BY <2>1, <2>2
<1>6. AdvancedAtoms(p, g) = atoms
  <2>1. DOMAIN AdvancedAtoms(p, g) = S /\ DOMAIN atoms = S
    BY <1>4 DEF AdvancedAtoms
  <2>2. \A a \in S : atoms[a] = Reweighted(p.atoms[a], g.weight[a])
    BY <1>4
  <2>3. AdvancedAtoms(p, g) = [a \in S |-> AdvancedAtoms(p, g)[a]]
    BY <1>4 DEF AdvancedAtoms
  <2>4. atoms = [a \in S |-> atoms[a]]
    BY <1>4
  <2> QED BY <1>5, <2>2, <2>3, <2>4
<1>7. o.program = [[p EXCEPT !.graph = g, !.atoms = atoms]
                     EXCEPT !.result = Compose(g, atoms)]
  <2>1. o \in FinishWeightUpdate(p, g, atoms)
    BY <1>1, <1>3, <1>6 DEF Advance
  <2> HIDE DEF atoms
  <2>2. \/ o = Ok([[p EXCEPT !.graph = g, !.atoms = atoms] EXCEPT !.result = Compose(g, atoms)])
        \/ \E x : o = Err(x)
    BY <2>1 DEF FinishWeightUpdate
  <2>3. \A x : ~Err(x).ok
    BY DEF Err
  <2> QED BY <2>2, <2>3 DEF Ok
<1>8. p = [graph |-> p.graph, atoms |-> p.atoms, result |-> p.result]
  BY DEF Shaped, Programs
<1>9. o.program = [graph |-> g, atoms |-> atoms, result |-> Compose(g, atoms)]
  <2> HIDE DEF atoms
  <2> QED BY <1>7, <1>8
<1> QED BY <1>1, <1>2, <1>9

\* A step with a checkpoint: the update could be carried out, and the
\* checkpoint is the program it led to.
LEMMA CheckpointStep ==
  ASSUME NEW p, Shaped(p), Sound(p), NEW g \in Graphs, NEW o \in Advance(p, g), o.ok
  PROVE  /\ Verifies(Capture(o.program), g)
         /\ Loaded(Capture(o.program), g) = o.program
         /\ TopologyChanged(p, g) \/ Failing(p, g) = {}
<1>1. Shaped(o.program) /\ Sound(o.program) /\ o.program.graph = g
  BY OkUpdate
<1>2. TopologyChanged(p, g) \/ Failing(p, g) = {}
  BY DEF Advance, Err
<1> QED BY <1>1, <1>2, CaptureLoads

-----------------------------------------------------------------------------
(* The trace *)

\* A trace starts with nothing recorded.
LEMMA InitTInv == TraceInit => TInv
<1> SUFFICES ASSUME TraceInit PROVE TInv
  OBVIOUS
<1>1. PICK g \in Graphs :
        /\ producer = Compile(g)
        /\ initial = Capture(producer)
        /\ steps = <<>>
        /\ replayed = Loaded(initial, g)
        /\ position = 0
        /\ rejected = FALSE
  BY DEF TraceInit
<1>2. Shaped(producer) /\ Sound(producer) /\ producer.graph = g
  BY <1>1, CompileSound
<1>3. replayed = producer
  BY <1>1, <1>2, CaptureLoads
<1>4. Len(steps) = 0 /\ steps \in Seq(Records)
  BY <1>1
<1> DEFINE h == [k \in 1 .. 1 |-> producer]
<1>5. History(h)
  BY <1>1, <1>2, <1>3, <1>4 DEF History, Shaped
<1> QED BY <1>1, <1>4, <1>5 DEF TInv

\* A recorded step continues the history of the producer.
LEMMA RecordTInv ==
  ASSUME TInv, NEW g \in Graphs, Record(g)
  PROVE  TInv'
<1>1. PICK o \in Advance(producer, g) :
        /\ o.ok
        /\ producer' = o.program
        /\ steps' = Append(steps, StepRecord(producer, g, o.program))
  BY DEF Record
<1>2. position = 0 /\ UNCHANGED <<replayed, position, rejected>>
  BY DEF Record
<1>3. PICK h : History(h)
  BY DEF TInv
<1> DEFINE n == Len(steps)
           new == StepRecord(producer, g, o.program)
<1>l. PICK longer : longer = [k \in 1 .. n + 2 |-> IF k = n + 2 THEN o.program ELSE h[k]]
  OBVIOUS
<1>4. n \in Nat /\ steps \in Seq(Records) /\ h \in [1 .. n + 1 -> Programs]
  BY <1>3 DEF TInv, History
<1>5. Shaped(producer) /\ Sound(producer) /\ producer = h[n + 1]
  BY <1>3, <1>4 DEF History
<1>6. Shaped(o.program) /\ Sound(o.program) /\ o.program \in Programs
  BY <1>1, <1>5, OkUpdate DEF Shaped
<1>7. new \in Records
  <2> DEFINE t == <<producer, g, o.program>>
  <2>1. t \in Programs \X Graphs \X Programs
    BY <1>5, <1>6 DEF Shaped
  <2>2. new = StepRecord(t[1], t[2], t[3])
    OBVIOUS
  <2> HIDE DEF t, new
  <2> QED BY <2>1, <2>2 DEF Records
<1>8. /\ steps' \in Seq(Records)
      /\ Len(steps') = n + 1
      /\ steps'[n + 1] = new
      /\ \A k \in 1 .. n : steps'[k] = steps[k]
  BY <1>1, <1>4, <1>7
<1>9. Follows(producer, o.program, new)
  BY <1>1 DEF Follows
<1>10. History(longer)'
  <2>1. longer \in [1 .. n + 2 -> Programs]
    BY <1>4, <1>6, <1>l
  <2>2. \A k \in 1 .. n + 1 : longer[k] = h[k]
    BY <1>4, <1>l
  <2>3. longer[n + 2] = o.program
    BY <1>4, <1>l
  <2> HIDE DEF new
  <2>4. \A k \in 1 .. n + 2 : Shaped(longer[k]) /\ Sound(longer[k])
    BY <1>3, <1>4, <1>6, <2>2, <2>3 DEF History
  <2>5. ASSUME NEW k \in 1 .. n + 1
        PROVE  Follows(longer[k], longer[k + 1], steps'[k])
    <3>1. CASE k = n + 1
      <4>1. longer[k] = producer /\ longer[k + 1] = o.program /\ steps'[k] = new
        BY <1>4, <1>5, <1>8, <2>2, <2>3, <3>1
      <4> QED BY <4>1, <1>9
    <3>2. CASE k \in 1 .. n
      <4>1. longer[k] = h[k] /\ longer[k + 1] = h[k + 1] /\ steps'[k] = steps[k]
        BY <1>4, <1>8, <2>2, <3>2
      <4>2. Follows(h[k], h[k + 1], steps[k])
        BY <1>3, <3>2 DEF History
      <4> QED BY <4>1, <4>2
    <3> QED BY <1>4, <3>1, <3>2
  <2>6. replayed' = longer[position' + 1]
    BY <1>2, <1>3, <1>4, <2>2 DEF History
  <2>7. n + 1 + 1 = n + 2
    BY <1>4
  <2>8. \A k \in 1 .. Len(steps') + 1 : Shaped(longer[k]) /\ Sound(longer[k])
    BY <1>8, <2>4, <2>7 DEF Shaped, Sound
  <2>9. \A k \in 1 .. Len(steps') : Follows(longer[k], longer[k + 1], steps'[k])
    BY <1>8, <2>5 DEF Follows
  <2> QED BY <1>1, <1>8, <2>1, <2>3, <2>6, <2>7, <2>8, <2>9 DEF History
<1>11. position' = 0 /\ position' \in 0 .. Len(steps') /\ ~rejected'
  BY <1>2, <1>4, <1>8 DEF Record
<1>12. \A k \in 1 .. position' : ~Miscounted(steps'[k])
  BY <1>11
<1> QED BY <1>8, <1>10, <1>11, <1>12 DEF TInv

\* The counters of both sides are the same exactly when the step is no
\* recompilation into cyclic atoms.
LEMMA CountersAgree ==
  ASSUME NEW p, NEW g
  PROVE  PreviewedWork(p, g) = RecordedWork(p, g)
           <=> ~(UpdateMode(p, g) = "Recompiled" /\ AtomsOf[g.shape] # {})
<1>1. CASE TopologyChanged(p, g)
  <2>1. UpdateMode(p, g) = "Recompiled"
    BY <1>1 DEF UpdateMode
  <2>2. PreviewedWork(p, g).reduced = {} /\ RecordedWork(p, g).reduced = AtomsOf[g.shape]
    BY <1>1 DEF PreviewedWork, RecordedWork
  <2>3. AtomsOf[g.shape] = {} => PreviewedWork(p, g) = RecordedWork(p, g)
    BY <1>1 DEF PreviewedWork, RecordedWork
  <2> QED BY <2>1, <2>2, <2>3
<1>2. CASE ~TopologyChanged(p, g)
  <2>1. UpdateMode(p, g) # "Recompiled"
    BY <1>2 DEF UpdateMode
  <2>2. PreviewedWork(p, g) = RecordedWork(p, g)
    BY <1>2 DEF PreviewedWork, RecordedWork
  <2> QED BY <2>1, <2>2
<1> QED BY <1>1, <1>2

\* A replayed step arrives where the producer was, or is one whose counters
\* differ.
LEMMA ReplayTInv ==
  ASSUME TInv, Replay
  PROVE  TInv'
<1>1. PICK h : History(h)
  BY DEF TInv
<1> DEFINE p == h[position + 1]
           q == h[position + 2]
<1>2. position \in Nat /\ position + 1 \in 1 .. Len(steps) /\ Len(steps) \in Nat
  BY DEF TInv, Replay
<1>3. replayed = p /\ Shaped(p) /\ Sound(p)
  BY <1>1, <1>2 DEF History
<1>4. Follows(p, q, Step)
  <2>1. (position + 1) + 1 = position + 2
    BY <1>2
  <2> QED BY <1>1, <1>2, <2>1 DEF History, Step
<1>g. PICK g \in Graphs : \E o \in Advance(p, g) :
        o.ok /\ q = o.program /\ Step = StepRecord(p, g, q)
  BY <1>4 DEF Follows
<1>5. PICK o \in Advance(p, g) :
        o.ok /\ q = o.program /\ Step = StepRecord(p, g, q)
  BY <1>g
<1>6. /\ Step.graph = g
      /\ Step.mode = UpdateMode(p, g)
      /\ Step.work = RecordedWork(p, g)
      /\ Step.diagram = q.result
      /\ Step.checkpoint = IF UpdateMode(p, g) = "Reused" THEN {} ELSE {Capture(q)}
  BY <1>5 DEF StepRecord
<1>7. Agrees(q) <=> ~Miscounted(Step)
  BY <1>3, <1>6, CountersAgree DEF Agrees, Miscounted
<1>11. ASSUME Miscounted(Step), rejected' = TRUE,
              UNCHANGED <<replayed, position, producer, steps>>
       PROVE  TInv'
  <2>1. History(h)'
    BY <1>1, <1>11 DEF History
  <2>2. Step' = Step
    BY <1>11 DEF Step
  <2>3. (position < Len(steps) /\ Miscounted(Step))'
    BY <1>2, <1>11, <2>2 DEF Miscounted
  <2>4. /\ steps' \in Seq(Records)
        /\ position' \in 0 .. Len(steps')
        /\ \A k \in 1 .. position' : ~Miscounted(steps'[k])
    BY <1>11 DEF TInv
  <2> QED BY <2>1, <2>3, <2>4 DEF TInv
<1>10. ASSUME ~Miscounted(Step), replayed' = q, position' = position + 1,
              UNCHANGED <<rejected, producer, steps>>
       PROVE  TInv'
  <2>1. History(h)'
    <3>1. position' + 1 = position + 2
      BY <1>10, <1>2
    <3>2. replayed' = h[position' + 1]
      BY <1>10, <3>1
    <3>3. /\ h \in [1 .. Len(steps') + 1 -> Programs]
          /\ \A k \in 1 .. Len(steps') + 1 : Shaped(h[k]) /\ Sound(h[k])
          /\ \A k \in 1 .. Len(steps') : Follows(h[k], h[k + 1], steps'[k])
          /\ producer' = h[Len(steps') + 1]
      BY <1>1, <1>10 DEF History
    <3> HIDE DEF p, q
    <3> QED BY <3>2, <3>3 DEF History
  <2>2. position' \in 0 .. Len(steps')
    BY <1>2, <1>10
  <2>3. steps' \in Seq(Records) /\ ~rejected'
    BY <1>10 DEF TInv, Replay
  <2>4. \A k \in 1 .. position' : ~Miscounted(steps'[k])
    <3>1. ASSUME NEW k \in 1 .. position' PROVE ~Miscounted(steps[k])
      <4>1. CASE k = position + 1
        BY <1>10, <4>1 DEF Step
      <4>2. CASE k \in 1 .. position
        BY <4>2 DEF TInv
      <4> QED BY <1>2, <1>10, <4>1, <4>2
    <3> QED BY <1>10, <3>1
  <2> QED BY <2>1, <2>2, <2>3, <2>4 DEF TInv
<1>8. CASE Step.mode = "Reused"
  <2>1. ReuseAccepted /\ ReuseReplayed = q
    <3> DEFINE atoms == [a \in DOMAIN p.atoms |-> Reweighted(p.atoms[a], g.weight[a])]
    <3>1. UpdateMode(p, g) = "Reused"
      BY <1>6, <1>8
    <3>2. /\ ~TopologyChanged(p, g)
          /\ \A a \in Touched(p, g) : Reusable(p.atoms[a], g.weight[a])
          /\ o.program = [graph |-> g, atoms |-> atoms, result |-> Compose(g, atoms)]
      <4> HIDE DEF p
      <4> QED BY <1>3, <1>5, <3>1, ReusedStep
    <3>3. ReuseReplayed = [graph |-> g, atoms |-> atoms, result |-> Compose(g, atoms)]
      BY <1>3, <1>6 DEF ReuseReplayed
    <3>4. ReuseAccepted
      BY <1>3, <1>6, <3>2 DEF ReuseAccepted
    <3> HIDE DEF atoms
    <3> QED BY <3>2, <3>3, <3>4, <1>5
  <2>2. IF ~Miscounted(Step)
        THEN replayed' = q /\ position' = position + 1 /\ UNCHANGED <<rejected, producer, steps>>
        ELSE rejected' = TRUE /\ UNCHANGED <<replayed, position, producer, steps>>
    BY <1>7, <1>8, <2>1 DEF Replay
  <2> QED BY <2>2, <1>10, <1>11
<1>9. CASE Step.mode # "Reused"
  <2>1. Step.checkpoint = {Capture(q)}
    BY <1>6, <1>9
  <2>2. /\ Verifies(Capture(q), g)
        /\ Loaded(Capture(q), g) = q
        /\ TopologyChanged(p, g) \/ Failing(p, g) = {}
    BY <1>3, <1>5, CheckpointStep
  <2>3. CheckpointAccepted /\ CheckpointReplayed = q
    <3>1. (CHOOSE art \in Step.checkpoint : TRUE) = Capture(q)
      BY <2>1
    <3> QED BY <1>3, <1>6, <2>1, <2>2, <3>1 DEF CheckpointAccepted, CheckpointReplayed
  <2>4. IF ~Miscounted(Step)
        THEN replayed' = q /\ position' = position + 1 /\ UNCHANGED <<rejected, producer, steps>>
        ELSE rejected' = TRUE /\ UNCHANGED <<replayed, position, producer, steps>>
    BY <1>7, <1>9, <2>3 DEF Replay
  <2> QED BY <2>4, <1>10, <1>11
<1> QED BY <1>8, <1>9

\* Recording and replaying keep the invariant of the trace.
LEMMA NextTInv == TInv /\ [TraceNext]_tvars => TInv'
<1> SUFFICES ASSUME TInv, [TraceNext]_tvars PROVE TInv'
  OBVIOUS
<1>1. CASE UNCHANGED tvars
  <2>1. /\ producer' = producer /\ steps' = steps /\ replayed' = replayed
        /\ position' = position /\ rejected' = rejected
    BY <1>1 DEF tvars
  <2>2. PICK h : History(h)
    BY DEF TInv
  <2>3. History(h)'
    BY <2>1, <2>2 DEF History, Shaped, Sound, Follows
  <2>4. \E x : History(x)'
    BY <2>3
  <2>5. Step' = Step
    BY <2>1 DEF Step
  <2> QED BY <2>1, <2>4, <2>5 DEF TInv, Miscounted
<1>2. CASE TraceDone
  BY <1>1, <1>2 DEF TraceDone
<1> QED BY <1>1, <1>2, RecordTInv, ReplayTInv DEF TraceNext

\* Of the traces a producer built, however long, the verifier accepts those
\* without a recompilation into cyclic atoms, whose counters differ, and the
\* program it ends with is the producer's (program_trace).
THEOREM TraceReplayAgrees == TraceSpec => []ReplayAgrees
<1>1. TInv => ReplayAgrees
  BY DEF TInv, History, ReplayAgrees
<1> QED BY <1>1, InitTInv, NextTInv, PTL DEF TraceSpec

-----------------------------------------------------------------------------
(* Guards *)

\* A relation that is transitive on some nodes.
Chains(R, N) ==
  \A x, y, z \in N : <<x, y>> \in R /\ <<y, z>> \in R => <<x, z>> \in R

\* One more guard from nodes that are reached.
Further(guards, X) == X \cup {g[2] : g \in {g \in guards : g[1] \in X}}

\* The nodes reached by up to n guards satisfy the equations of the walk.
LEMMA WalkExists ==
  ASSUME NEW guards, IsFiniteSet(guards), NEW N, guards \subseteq N \X N,
         NEW nodes \in SUBSET N
  PROVE  \E f : /\ f[0] = nodes
                /\ \A n \in 1 .. Cardinality(guards) : f[n] = Further(guards, f[n - 1])
                /\ ReachedBy(guards, nodes) = f[Cardinality(guards)]
<1>. DEFINE size == Cardinality(guards)
            D    == SUBSET N
            G    == [n \in 1 .. size |-> [X \in D |-> Further(guards, X)]]
            Walk(f) == f = [n \in 0 .. size |->
                              IF n = 0 THEN nodes ELSE Further(guards, f[n - 1])]
<1>1. size \in Nat
  BY FS_CardinalityType
<1>2. \A X \in D : Further(guards, X) \in D
  BY DEF Further
<1>3. \A k \in 1 .. size : \A X \in D : G[k][X] \in D
  BY <1>2
<1>4. \E f : f \in Recursions(size, D, nodes, G)
  <2>. HIDE DEF size, D, G
  <2>1. nodes \in D
    BY DEF D
  <2>2. QED
    BY <1>1, <1>3, <2>1, RecursionExists
<1>5. PICK f : f \in Recursions(size, D, nodes, G)
  BY <1>4
<1>6. /\ f \in [0 .. size -> D] /\ f[0] = nodes
      /\ \A k \in 1 .. size : f[k] = Further(guards, f[k - 1])
  <2>1. /\ f \in [0 .. size -> D] /\ f[0] = nodes
        /\ \A k \in 1 .. size : f[k] = G[k][f[k - 1]]
    <3>. HIDE DEF size, D, G
    <3>1. QED
      BY <1>5 DEF Recursions
  <2>2. ASSUME NEW k \in 1 .. size
        PROVE  f[k] = Further(guards, f[k - 1])
    <3>1. f[k - 1] \in D
      <4>. HIDE DEF size, D, G
      <4>1. k - 1 \in 0 .. size
        BY <1>1
      <4>2. QED
        BY <2>1, <4>1
    <3>2. QED
      BY <2>1, <3>1
  <2>3. QED
    BY <2>1, <2>2
<1>7. Walk(f)
  <2>1. ASSUME NEW n \in 0 .. size
        PROVE  f[n] = IF n = 0 THEN nodes ELSE Further(guards, f[n - 1])
    <3>. HIDE DEF size, D, G
    <3>1. n # 0 => n \in 1 .. size
      BY <1>1
    <3>2. QED
      BY <1>6, <3>1
  <2>. HIDE DEF size, D, G
  <2>2. f = [n \in 0 .. size |-> f[n]]
    BY <1>6
  <2>3. QED
    BY <2>1, <2>2
<1>8. ReachedBy(guards, nodes) = (CHOOSE g : Walk(g))[size]
  BY DEF ReachedBy, Further
<1>9. PICK g : Walk(g) /\ g = CHOOSE h : Walk(h)
  <2>. HIDE DEF Walk
  <2>1. QED
    BY <1>7
<1>10. g[0] = nodes /\ \A n \in 1 .. size : g[n] = Further(guards, g[n - 1])
  <2>. HIDE DEF size, D, G
  <2>1. QED
    BY <1>1, <1>9
<1>11. QED
  BY <1>8, <1>9, <1>10

\* Where the guards go up in rank, those that minimisation keeps imply the
\* others: the other guards form a path, and a guard of least length that does not
\* hold would lie over a path of shorter ones.
LEMMA MinimizedImply ==
  ASSUME NEW guards, IsFiniteSet(guards), NEW N, guards \subseteq N \X N,
         NEW rank \in [N -> Nat], \A g \in guards : rank[g[1]] < rank[g[2]],
         NEW R, Chains(R, N), MinimizeGuards(guards) \subseteq R
  PROVE  guards \subseteq R
<1>. DEFINE length(g) == rank[g[2]] - rank[g[1]]
            wrong     == guards \ R
            lengths   == {length(g) : g \in wrong}
<1>1. ASSUME NEW g \in guards
      PROVE  g[1] \in N /\ g[2] \in N /\ g = <<g[1], g[2]>> /\ length(g) \in Nat \ {0}
  <2>1. g \in N \X N
    OBVIOUS
  <2>2. rank[g[1]] \in Nat /\ rank[g[2]] \in Nat /\ rank[g[1]] < rank[g[2]]
    BY <2>1
  <2>3. QED
    BY <2>1, <2>2
<1>2. SUFFICES ASSUME wrong # {} PROVE FALSE
  OBVIOUS
<1>3. PICK g \in wrong : \A h \in wrong : length(g) <= length(h)
  <2>1. lengths \in SUBSET Nat /\ lengths # {}
    BY <1>1, <1>2
  <2>. HIDE DEF lengths
  <2>2. Min(lengths) \in lengths /\ \A n \in lengths : Min(lengths) <= n
    BY <2>1, MinOfNaturals
  <2>. HIDE DEF length
  <2>3. QED
    BY <2>2 DEF lengths
<1>. DEFINE from  == g[1]
            to    == g[2]
            first == {h[2] : h \in {h \in guards : h[1] = from}} \ {to}
            good(x) == /\ x \in N /\ rank[from] < rank[x]
                       /\ rank[x] < rank[to] \/ x = to => <<from, x>> \in R
<1>4. \* A shorter guard holds.
      ASSUME NEW h \in guards, length(h) < length(g)
      PROVE  h \in R
  <2>1. length(h) \in Int /\ length(g) \in Int
    BY <1>1
  <2>. HIDE DEF length
  <2>2. QED
    BY <1>3, <1>4, <2>1
<1>5. Alternate(guards, g)
  BY <1>3 DEF MinimizeGuards
<1>6. to \in ReachedBy(guards, first)
  BY <1>5 DEF Alternate
<1>7. first \in SUBSET N
  BY <1>1
<1>8. PICK f : /\ f[0] = first
               /\ \A n \in 1 .. Cardinality(guards) : f[n] = Further(guards, f[n - 1])
               /\ ReachedBy(guards, first) = f[Cardinality(guards)]
  <2>. HIDE DEF first
  <2>1. QED
    BY <1>7, WalkExists
<1>9. /\ from \in N /\ to \in N /\ rank[from] \in Nat /\ rank[to] \in Nat
      /\ rank[from] < rank[to]
  BY <1>1
<1>10. ASSUME NEW x \in f[0]
       PROVE  good(x)
  <2>1. PICK h \in guards : h[1] = from /\ h[2] = x /\ x # to
    BY <1>8
  <2>2. x \in N /\ rank[from] < rank[x] /\ h = <<from, x>>
    BY <1>1, <2>1
  <2>3. rank[x] < rank[to] => length(h) < length(g)
    BY <1>9, <2>1, <2>2
  <2>4. QED
    BY <1>4, <2>1, <2>2, <2>3
<1>11. ASSUME NEW n \in 1 .. Cardinality(guards), \A x \in f[n - 1] : good(x),
              NEW x \in f[n]
       PROVE  good(x)
  <2>1. CASE x \in f[n - 1]
    BY <1>11, <2>1
  <2>2. CASE x \notin f[n - 1]
    <3>1. PICK h \in guards : h[1] \in f[n - 1] /\ h[2] = x
      BY <1>8, <2>2 DEF Further
    <3>. DEFINE y == h[1]
    <3>2. good(y)
      BY <1>11, <3>1
    <3>3. x \in N /\ y \in N /\ h = <<y, x>> /\ rank[y] < rank[x]
      BY <1>1, <3>1
    <3>4. rank[x] \in Nat /\ rank[y] \in Nat /\ rank[from] < rank[y] /\ rank[from] < rank[x]
      BY <1>9, <3>2, <3>3
    <3>5. ASSUME rank[x] < rank[to] \/ x = to
          PROVE  <<from, x>> \in R
      <4>1. rank[y] < rank[to] /\ length(h) < length(g)
        BY <1>9, <3>1, <3>3, <3>4, <3>5
      <4>2. <<y, x>> \in R
        BY <1>4, <3>3, <4>1
      <4>3. <<from, y>> \in R
        BY <3>2, <4>1
      <4>4. QED
        BY <1>9, <3>3, <4>2, <4>3 DEF Chains
    <3>6. QED
      BY <3>3, <3>4, <3>5
  <2>3. QED
    BY <2>1, <2>2
<1>12. \A n \in 0 .. Cardinality(guards) : \A x \in f[n] : good(x)
  <2>. DEFINE H == {n \in 0 .. Cardinality(guards) : \A x \in f[n] : good(x)}
  <2>. HIDE DEF good
  <2>1. Cardinality(guards) \in Nat
    BY FS_CardinalityType
  <2>2. 0 \in H
    BY <1>10, <2>1
  <2>3. ASSUME NEW n \in 1 .. Cardinality(guards), n - 1 \in H
        PROVE  n \in H
    BY <1>11, <2>1, <2>3
  <2>4. H \in SUBSET (0 .. Cardinality(guards))
    OBVIOUS
  <2>5. H = 0 .. Cardinality(guards)
    <3>. HIDE DEF H
    <3>1. QED
      BY <2>1, <2>2, <2>3, <2>4, FirstFailure
  <2>6. QED
    BY <2>5
<1>13. good(to)
  <2>. HIDE DEF good
  <2>1. Cardinality(guards) \in 0 .. Cardinality(guards)
    BY FS_CardinalityType
  <2>2. QED
    BY <1>6, <1>8, <1>12, <2>1
<1>14. g = <<from, to>>
  BY <1>1
<1>15. QED
  BY <1>3, <1>13, <1>14

-----------------------------------------------------------------------------
(* Weightings and their simplices *)

\* What WeightingsAssumption says of one.
Weighting(w) ==
  /\ IsFiniteSet(DOMAIN w)
  /\ w \in [DOMAIN w -> Nat]
  /\ \A e \in DOMAIN w : e \in Nat \X Nat /\ e[1] < e[2]

\* An active edge is a pair of vertices in order.
LEMMA EdgeFacts ==
  ASSUME NEW w, Weighting(w), NEW e \in ActiveEdges(w)
  PROVE  /\ \E u, v \in Nat : e = <<u, v>> /\ u < v
         /\ Len(e) = 2 /\ w[e] \in Nat
<1>1. e \in DOMAIN w
  BY DEF ActiveEdges
<1>2. PICK u, v \in Nat : e = <<u, v>>
  BY <1>1 DEF Weighting
<1>3. u < v /\ w[e] \in Nat
  BY <1>1, <1>2 DEF Weighting
<1>4. Len(<<u, v>>) = 2
  OBVIOUS
<1>5. QED
  BY <1>2, <1>3, <1>4

\* A triangle is three vertices in order, and its faces are active.
LEMMA TriangleFacts ==
  ASSUME NEW w, Weighting(w), NEW t \in Triangles(w)
  PROVE  /\ \E a, b, c \in Nat : t = <<a, b, c>> /\ a < b /\ b < c
         /\ Len(t) = 3 /\ Faces(t) # {} /\ Faces(t) \subseteq ActiveEdges(w)
         /\ \E e, f, g : Faces(t) = {e, f, g}
<1>. DEFINE E == ActiveEdges(w)
<1>1. PICK p \in E \X E : /\ p[1][2] = p[2][1] /\ <<p[1][1], p[2][2]>> \in E
                          /\ t = <<p[1][1], p[1][2], p[2][2]>>
  BY DEF Triangles
<1>2. p[1] \in E /\ p[2] \in E
  OBVIOUS
<1>3. PICK a, b \in Nat : p[1] = <<a, b>> /\ a < b
  BY <1>2, EdgeFacts
<1>4. PICK d, c \in Nat : p[2] = <<d, c>> /\ d < c
  BY <1>2, EdgeFacts
<1>5. t = <<a, b, c>> /\ d = b
  BY <1>1, <1>3, <1>4
<1>6. <<a, b>> \in E /\ <<a, c>> \in E /\ <<b, c>> \in E
  BY <1>1, <1>2, <1>3, <1>4, <1>5
<1>7. Len(t) = 3 /\ t[1] = a /\ t[2] = b /\ t[3] = c
  BY <1>5
<1>8. Faces(t) = {<<a, b>>, <<a, c>>, <<b, c>>}
  BY <1>7 DEF Faces
<1>9. QED
  BY <1>3, <1>4, <1>5, <1>6, <1>7, <1>8

\* The largest of three numbers is a number.
LEMMA MaxOfThree ==
  ASSUME NEW x \in Nat, NEW y \in Nat, NEW z \in Nat
  PROVE  Max({x, y, z}) \in Nat
<1>1. \E m \in {x, y, z} : \A n \in {x, y, z} : n <= m
  OBVIOUS
<1>2. Max({x, y, z}) \in {x, y, z}
  BY <1>1 DEF Max
<1>3. QED
  BY <1>2

\* Edges and triangles have values and ranks, which are natural numbers.
LEMMA ValuesAreNumbers ==
  ASSUME NEW w, Weighting(w), NEW s \in ActiveEdges(w) \cup Triangles(w)
  PROVE  SimplexValue(w, s) \in Nat
<1>1. CASE s \in ActiveEdges(w)
  BY <1>1, EdgeFacts DEF SimplexValue
<1>2. CASE s \in Triangles(w)
  <2>1. PICK e, f, g : Faces(s) = {e, f, g}
    BY <1>2, TriangleFacts
  <2>2. {e, f, g} \subseteq ActiveEdges(w)
    BY <1>2, <2>1, TriangleFacts
  <2>3. w[e] \in Nat /\ w[f] \in Nat /\ w[g] \in Nat
    BY <2>2, EdgeFacts
  <2>4. {w[x] : x \in Faces(s)} = {w[e], w[f], w[g]}
    BY <2>1
  <2>5. Max({w[x] : x \in Faces(s)}) \in Nat
    BY <2>3, <2>4, MaxOfThree
  <2>6. Len(s) = 3
    BY <1>2, TriangleFacts
  <2>7. QED
    BY <2>5, <2>6 DEF SimplexValue
<1>3. QED
  BY <1>1, <1>2

-----------------------------------------------------------------------------
(* Ranks *)

\* Products of larger factors are larger.
LEMMA ProductsGrow ==
  ASSUME NEW a \in Nat, NEW b \in Nat, NEW c \in Nat, NEW d \in Nat, a <= b, c <= d
  PROVE  a * c <= b * d
<1>1. a * c <= b * c
  OBVIOUS
<1>2. b * c <= b * d
  OBVIOUS
<1>3. QED
  BY <1>1, <1>2

\* Binomial coefficients by Pascal's rule, and their growth.
LEMMA Choose2Facts ==
  ASSUME NEW v \in Nat
  PROVE  /\ Choose2(v) \in Nat
         /\ v * (v - 1) = 2 * Choose2(v)
         /\ Choose2(v + 1) = Choose2(v) + v
         /\ \A u \in Nat : u <= v => Choose2(u) <= Choose2(v)
<1>1. ASSUME NEW n \in Nat
      PROVE  n * (n - 1) \in Nat /\ \E h \in Nat : n * (n - 1) = 2 * h
  <2>1. CASE n = 0
    BY <2>1
  <2>2. CASE n # 0
    <3>1. PICK k \in Nat : n = 2 * k \/ n = 2 * k + 1
      <4>1. n = (2 * (n \div 2)) + (n % 2) /\ (n % 2) \in {0, 1} /\ (n \div 2) \in Nat
        OBVIOUS
      <4>2. QED
        BY <4>1
    <3>2. CASE n = 2 * k
      <4>. DEFINE h == k * (2 * k - 1)
      <4>1. 2 * k - 1 \in Nat
        BY <2>2, <3>2
      <4>2. h \in Nat
        BY <4>1
      <4>3. n * (n - 1) = 2 * h
        BY <3>2
      <4>. HIDE DEF h
      <4>4. 2 * h \in Nat
        BY <4>2
      <4>5. QED
        BY <4>2, <4>3, <4>4
    <3>3. CASE n = 2 * k + 1
      <4>. DEFINE h == (2 * k + 1) * k
      <4>1. h \in Nat
        OBVIOUS
      <4>2. n * (n - 1) = 2 * h
        BY <3>3
      <4>. HIDE DEF h
      <4>3. 2 * h \in Nat
        BY <4>1
      <4>4. QED
        BY <4>1, <4>2, <4>3
    <3>4. QED
      BY <3>1, <3>2, <3>3
  <2>3. QED
    BY <2>1, <2>2
<1>2. ASSUME NEW n \in Nat
      PROVE  Choose2(n) \in Nat /\ n * (n - 1) = 2 * Choose2(n)
  <2>1. PICK h \in Nat : n * (n - 1) = 2 * h
    BY <1>1
  <2>2. (2 * h) \div 2 = h
    OBVIOUS
  <2>3. QED
    BY <2>1, <2>2 DEF Choose2
<1>3. (v + 1) * ((v + 1) - 1) = v * (v - 1) + 2 * v
  OBVIOUS
<1>4. Choose2(v + 1) = Choose2(v) + v
  <2>1. Choose2(v) \in Nat /\ v * (v - 1) = 2 * Choose2(v)
    BY <1>2
  <2>2. Choose2(v + 1) \in Nat /\ (v + 1) * ((v + 1) - 1) = 2 * Choose2(v + 1)
    BY <1>2
  <2>3. 2 * Choose2(v + 1) = (2 * Choose2(v)) + (2 * v)
    BY <1>3, <2>1, <2>2
  <2>4. QED
    BY <2>1, <2>2, <2>3
<1>5. ASSUME NEW u \in Nat, u <= v
      PROVE  Choose2(u) <= Choose2(v)
  <2>1. CASE u = 0
    BY <1>2, <2>1
  <2>2. CASE u # 0
    <3>1. u * (u - 1) <= v * (v - 1)
      BY <1>5, <2>2, ProductsGrow
    <3>2. QED
      BY <1>2, <3>1
  <2>3. QED
    BY <2>1, <2>2
<1>6. QED
  BY <1>2, <1>4, <1>5

\* The next binomial coefficients by Pascal's rule, and their growth.
LEMMA Choose3Facts ==
  ASSUME NEW n \in Nat
  PROVE  /\ Choose3(n) \in Nat
         /\ Choose3(n + 1) = Choose3(n) + Choose2(n)
         /\ \A c \in Nat : c <= n => Choose3(c) <= Choose3(n)
<1>1. ASSUME NEW c \in Nat
      PROVE  Choose3(c + 1) = Choose3(c) + Choose2(c)
  <2>. DEFINE x == c * (c - 1) * (c - 2)
              y == Choose2(c)
  <2>1. y \in Nat /\ c * (c - 1) = 2 * y
    BY Choose2Facts
  <2>2. (c + 1) * ((c + 1) - 1) * ((c + 1) - 2) = x + 3 * (c * (c - 1))
    OBVIOUS
  <2>3. x \in Int
    OBVIOUS
  <2>. HIDE DEF x, y
  <2>4. 3 * (c * (c - 1)) = 6 * y
    BY <2>1
  <2>5. (x + (6 * y)) \div 6 = (x \div 6) + y
    BY <2>1, <2>3
  <2>6. Choose3(c + 1) = (x + (6 * y)) \div 6
    BY <2>2, <2>4 DEF Choose3
  <2>7. Choose3(c) = x \div 6
    BY DEF Choose3, x
  <2>8. QED
    BY <2>5, <2>6, <2>7 DEF y
<1>. DEFINE H == {m \in 0 .. n : /\ Choose3(m) \in Nat
                                 /\ \A c \in 0 .. m : Choose3(c) <= Choose3(m)}
<1>2. Choose3(0) = 0
  <2>1. 0 * (0 - 1) * (0 - 2) = 0 /\ 0 \div 6 = 0
    OBVIOUS
  <2>2. QED
    BY <2>1 DEF Choose3
<1>3. 0 \in H
  BY <1>2
<1>4. ASSUME NEW m \in 1 .. n, m - 1 \in H
      PROVE  m \in H
  <2>1. Choose2(m - 1) \in Nat
    BY Choose2Facts
  <2>2. Choose3(m) = Choose3(m - 1) + Choose2(m - 1)
    <3>1. m - 1 \in Nat /\ (m - 1) + 1 = m
      OBVIOUS
    <3>2. QED
      BY <1>1, <3>1
  <2>3. Choose3(m - 1) \in Nat /\ \A c \in 0 .. m - 1 : Choose3(c) <= Choose3(m - 1)
    BY <1>4
  <2>4. Choose3(m) \in Nat /\ Choose3(m - 1) <= Choose3(m)
    BY <2>1, <2>2, <2>3
  <2>5. ASSUME NEW c \in 0 .. m
        PROVE  Choose3(c) <= Choose3(m)
    <3>1. CASE c = m
      BY <2>4, <3>1
    <3>2. CASE c # m
      <4>1. c \in 0 .. m - 1
        BY <3>2
      <4>2. Choose3(c) <= Choose3(m - 1) /\ Choose3(c) \in Int
        <5>1. Choose3(c) <= Choose3(m - 1)
          BY <2>3, <4>1
        <5>2. Choose3(c) \in Int
          BY DEF Choose3
        <5>3. QED
          BY <5>1, <5>2
      <4>3. QED
        BY <2>3, <2>4, <4>2
    <3>3. QED
      BY <3>1, <3>2
  <2>6. QED
    BY <2>4, <2>5
<1>5. H = 0 .. n
  <2>. HIDE DEF H
  <2>1. H \in SUBSET (0 .. n)
    BY DEF H
  <2>2. QED
    BY <1>3, <1>4, <2>1, FirstFailure
<1>6. n \in H
  BY <1>5
<1>7. QED
  BY <1>1, <1>6

\* The rank numbers the edges and the triangles.
LEMMA EdgeRanks ==
  ASSUME NEW u \in Nat, NEW v \in Nat, u < v
  PROVE  /\ SimplexRank(<<u, v>>) \in Nat
         /\ Choose2(v) <= SimplexRank(<<u, v>>)
         /\ SimplexRank(<<u, v>>) < Choose2(v + 1)
         /\ SimplexRank(<<u, v>>) = u + Choose2(v)
<1>1. Choose2(v) \in Nat /\ Choose2(v + 1) = Choose2(v) + v
  BY Choose2Facts
<1>2. SimplexRank(<<u, v>>) = u + Choose2(v)
  BY DEF SimplexRank
<1>3. QED
  BY <1>1, <1>2

LEMMA TriangleRanks ==
  ASSUME NEW a \in Nat, NEW b \in Nat, NEW c \in Nat, a < b, b < c
  PROVE  /\ SimplexRank(<<a, b, c>>) \in Nat
         /\ Choose3(c) <= SimplexRank(<<a, b, c>>)
         /\ SimplexRank(<<a, b, c>>) < Choose3(c + 1)
         /\ SimplexRank(<<a, b, c>>) = SimplexRank(<<a, b>>) + Choose3(c)
<1>1. SimplexRank(<<a, b, c>>) = a + Choose2(b) + Choose3(c)
  BY DEF SimplexRank
<1>2. /\ SimplexRank(<<a, b>>) \in Nat /\ SimplexRank(<<a, b>>) < Choose2(b + 1)
      /\ SimplexRank(<<a, b>>) = a + Choose2(b)
  BY EdgeRanks
<1>3. Choose3(c) \in Nat /\ Choose3(c + 1) = Choose3(c) + Choose2(c)
  BY Choose3Facts
<1>4. Choose2(b) \in Nat /\ Choose2(b + 1) \in Nat /\ Choose2(c) \in Nat
  <2>1. b + 1 \in Nat
    OBVIOUS
  <2>2. QED
    BY <2>1, Choose2Facts
<1>5. Choose2(b + 1) <= Choose2(c)
  <2>1. \A u \in Nat : u <= c => Choose2(u) <= Choose2(c)
    BY Choose2Facts
  <2>2. b + 1 \in Nat /\ b + 1 <= c
    OBVIOUS
  <2>3. QED
    BY <2>1, <2>2
<1>6. QED
  BY <1>1, <1>2, <1>3, <1>4, <1>5

LEMMA EdgesByRank ==
  ASSUME NEW u \in Nat, NEW v \in Nat, u < v, NEW x \in Nat, NEW y \in Nat, x < y,
         SimplexRank(<<u, v>>) = SimplexRank(<<x, y>>)
  PROVE  u = x /\ v = y
<1>1. /\ SimplexRank(<<u, v>>) < Choose2(v + 1) /\ Choose2(v) <= SimplexRank(<<u, v>>)
      /\ SimplexRank(<<u, v>>) = u + Choose2(v) /\ SimplexRank(<<u, v>>) \in Nat
  BY EdgeRanks
<1>2. /\ SimplexRank(<<x, y>>) < Choose2(y + 1) /\ Choose2(y) <= SimplexRank(<<x, y>>)
      /\ SimplexRank(<<x, y>>) = x + Choose2(y)
  BY EdgeRanks
<1>3. /\ Choose2(v) \in Nat /\ Choose2(y) \in Nat
      /\ Choose2(v + 1) \in Nat /\ Choose2(y + 1) \in Nat
      /\ v + 1 <= y => Choose2(v + 1) <= Choose2(y)
      /\ y + 1 <= v => Choose2(y + 1) <= Choose2(v)
  <2>1. v + 1 \in Nat /\ y + 1 \in Nat
    OBVIOUS
  <2>2. /\ \A n \in Nat : n <= y => Choose2(n) <= Choose2(y)
        /\ \A n \in Nat : n <= v => Choose2(n) <= Choose2(v)
    BY Choose2Facts
  <2>3. /\ Choose2(v) \in Nat /\ Choose2(y) \in Nat
        /\ Choose2(v + 1) \in Nat /\ Choose2(y + 1) \in Nat
    BY <2>1, Choose2Facts
  <2>4. QED
    BY <2>1, <2>2, <2>3
<1>4. v = y
  BY <1>1, <1>2, <1>3
<1>5. u + Choose2(v) = x + Choose2(v)
  BY <1>1, <1>2, <1>4
<1>6. u = x
  BY <1>3, <1>5
<1>7. QED
  BY <1>4, <1>6

LEMMA TrianglesByRank ==
  ASSUME NEW a \in Nat, NEW b \in Nat, NEW c \in Nat, a < b, b < c,
         NEW x \in Nat, NEW y \in Nat, NEW z \in Nat, x < y, y < z,
         SimplexRank(<<a, b, c>>) = SimplexRank(<<x, y, z>>)
  PROVE  a = x /\ b = y /\ c = z
<1>1. /\ SimplexRank(<<a, b, c>>) < Choose3(c + 1)
      /\ Choose3(c) <= SimplexRank(<<a, b, c>>)
      /\ SimplexRank(<<a, b, c>>) = SimplexRank(<<a, b>>) + Choose3(c)
      /\ SimplexRank(<<a, b, c>>) \in Nat
  BY TriangleRanks
<1>2. /\ SimplexRank(<<x, y, z>>) < Choose3(z + 1)
      /\ Choose3(z) <= SimplexRank(<<x, y, z>>)
      /\ SimplexRank(<<x, y, z>>) = SimplexRank(<<x, y>>) + Choose3(z)
  BY TriangleRanks
<1>3. /\ Choose3(c) \in Nat /\ Choose3(z) \in Nat
      /\ Choose3(c + 1) \in Nat /\ Choose3(z + 1) \in Nat
      /\ c + 1 <= z => Choose3(c + 1) <= Choose3(z)
      /\ z + 1 <= c => Choose3(z + 1) <= Choose3(c)
  <2>1. c + 1 \in Nat /\ z + 1 \in Nat
    OBVIOUS
  <2>2. /\ \A n \in Nat : n <= z => Choose3(n) <= Choose3(z)
        /\ \A n \in Nat : n <= c => Choose3(n) <= Choose3(c)
    BY Choose3Facts
  <2>3. /\ Choose3(c) \in Nat /\ Choose3(z) \in Nat
        /\ Choose3(c + 1) \in Nat /\ Choose3(z + 1) \in Nat
    BY <2>1, Choose3Facts
  <2>4. QED
    BY <2>1, <2>2, <2>3
<1>4. c = z
  BY <1>1, <1>2, <1>3
<1>5. SimplexRank(<<a, b>>) \in Nat /\ SimplexRank(<<x, y>>) \in Nat
  BY EdgeRanks
<1>6. SimplexRank(<<a, b>>) = SimplexRank(<<x, y>>)
  <2>. DEFINE m == SimplexRank(<<a, b>>)
              n == SimplexRank(<<x, y>>)
              k == Choose3(c)
  <2>1. m + k = n + k
    BY <1>1, <1>2, <1>4
  <2>2. m \in Nat /\ n \in Nat /\ k \in Nat
    BY <1>3, <1>5
  <2>. HIDE DEF m, n, k
  <2>3. m = n
    BY <2>1, <2>2
  <2>4. QED
    BY <2>3 DEF m, n
<1>7. QED
  BY <1>4, <1>6, EdgesByRank

-----------------------------------------------------------------------------
(* Filtration order *)

Simplices(w) == ActiveEdges(w) \cup Triangles(w)

OrderOn(w, S) == {p \in S \X S : Precedes(w, p[1], p[2])}

\* Ranks are natural numbers too.
LEMMA RanksAreNumbers ==
  ASSUME NEW w, Weighting(w), NEW s \in Simplices(w)
  PROVE  SimplexRank(s) \in Nat
<1>1. CASE s \in ActiveEdges(w)
  <2>1. PICK u, v \in Nat : s = <<u, v>> /\ u < v
    BY <1>1, EdgeFacts
  <2>2. SimplexRank(<<u, v>>) \in Nat
    BY <2>1, EdgeRanks
  <2>3. QED
    BY <2>1, <2>2
<1>2. CASE s \in Triangles(w)
  <2>1. PICK a, b, c \in Nat : s = <<a, b, c>> /\ a < b /\ b < c
    BY <1>2, TriangleFacts
  <2>2. SimplexRank(<<a, b, c>>) \in Nat
    BY <2>1, TriangleRanks
  <2>3. QED
    BY <2>1, <2>2
<1>3. QED
  BY <1>1, <1>2 DEF Simplices

\* The order is strict and transitive on edges and triangles together.
LEMMA PrecedesIsStrict ==
  ASSUME NEW w, Weighting(w),
         NEW s \in Simplices(w), NEW t \in Simplices(w), NEW u \in Simplices(w)
  PROVE  /\ ~Precedes(w, s, s)
         /\ Precedes(w, s, t) /\ Precedes(w, t, u) => Precedes(w, s, u)
         /\ SimplexRank(s) # SimplexRank(t) => Precedes(w, s, t) \/ Precedes(w, t, s)
<1>. DEFINE value(x) == SimplexValue(w, x)
            rank(x)  == SimplexRank(x)
<1>1. /\ value(s) \in Nat /\ value(t) \in Nat /\ value(u) \in Nat
      /\ rank(s) \in Nat /\ rank(t) \in Nat /\ rank(u) \in Nat
  BY ValuesAreNumbers, RanksAreNumbers DEF Simplices
<1>2. \A x, y : Precedes(w, x, y) <=> \/ value(x) < value(y)
                                      \/ value(x) = value(y) /\ rank(x) > rank(y)
  BY DEF Precedes
<1>3. rank(s) # rank(t) <=> SimplexRank(s) # SimplexRank(t)
  OBVIOUS
<1>. HIDE DEF value, rank
<1>4. QED
  BY <1>1, <1>2, <1>3

LEMMA OrderChains ==
  ASSUME NEW w, Weighting(w)
  PROVE  Chains(OrderOn(w, Simplices(w)), Simplices(w))
<1>. DEFINE R == OrderOn(w, Simplices(w))
<1>1. ASSUME NEW x \in Simplices(w), NEW y \in Simplices(w)
      PROVE  <<x, y>> \in R <=> Precedes(w, x, y)
  BY DEF OrderOn
<1>2. ASSUME NEW x \in Simplices(w), NEW y \in Simplices(w), NEW z \in Simplices(w),
             <<x, y>> \in R, <<y, z>> \in R
      PROVE  <<x, z>> \in R
  BY <1>1, <1>2, PrecedesIsStrict
<1>3. QED
  BY <1>2 DEF Chains

\* The order of one dimension is total.
LEMMA OrderIsTotal ==
  ASSUME NEW w, Weighting(w), NEW S, S \in {ActiveEdges(w), Triangles(w)}
  PROVE  Orders(OrderOn(w, S), S)
<1>. DEFINE R == OrderOn(w, S)
<1>1. ASSUME NEW x \in S, NEW y \in S
      PROVE  <<x, y>> \in R <=> Precedes(w, x, y)
  BY DEF OrderOn
<1>2. S \subseteq Simplices(w)
  BY DEF Simplices
<1>3. ASSUME NEW x \in S, NEW y \in S, SimplexRank(x) = SimplexRank(y)
      PROVE  x = y
  <2>1. CASE S = ActiveEdges(w)
    <3>1. PICK u, v \in Nat : x = <<u, v>> /\ u < v
      BY <2>1, EdgeFacts
    <3>2. PICK p, q \in Nat : y = <<p, q>> /\ p < q
      BY <2>1, EdgeFacts
    <3>3. SimplexRank(<<u, v>>) = SimplexRank(<<p, q>>)
      BY <1>3, <3>1, <3>2
    <3>4. u = p /\ v = q
      BY <3>1, <3>2, <3>3, EdgesByRank
    <3>5. QED
      BY <3>1, <3>2, <3>4
  <2>2. CASE S = Triangles(w)
    <3>1. PICK a, b, c \in Nat : x = <<a, b, c>> /\ a < b /\ b < c
      BY <2>2, TriangleFacts
    <3>2. PICK p, q, r \in Nat : y = <<p, q, r>> /\ p < q /\ q < r
      BY <2>2, TriangleFacts
    <3>3. SimplexRank(<<a, b, c>>) = SimplexRank(<<p, q, r>>)
      BY <1>3, <3>1, <3>2
    <3>4. a = p /\ b = q /\ c = r
      BY <3>1, <3>2, <3>3, TrianglesByRank
    <3>5. QED
      BY <3>1, <3>2, <3>4
  <2>3. QED
    BY <2>1, <2>2
<1>4. ASSUME NEW x \in S, NEW y \in S, NEW z \in S
      PROVE  /\ <<x, x>> \notin R
             /\ <<x, y>> \in R /\ <<y, z>> \in R => <<x, z>> \in R
             /\ x # y => <<x, y>> \in R \/ <<y, x>> \in R
  <2>1. x \in Simplices(w) /\ y \in Simplices(w) /\ z \in Simplices(w)
    BY <1>2
  <2>2. /\ ~Precedes(w, x, x)
        /\ Precedes(w, x, y) /\ Precedes(w, y, z) => Precedes(w, x, z)
        /\ SimplexRank(x) # SimplexRank(y) => Precedes(w, x, y) \/ Precedes(w, y, x)
    BY <2>1, PrecedesIsStrict
  <2>3. QED
    BY <1>1, <1>3, <2>2
<1>5. QED
  BY <1>4 DEF Orders

\* There are finitely many simplices.
LEMMA SimplicesFinite ==
  ASSUME NEW w, Weighting(w)
  PROVE  /\ IsFiniteSet(ActiveEdges(w))
         /\ IsFiniteSet(Triangles(w))
         /\ IsFiniteSet(Simplices(w))
<1>. DEFINE E    == ActiveEdges(w)
            P    == {p \in E \X E : p[1][2] = p[2][1] /\ <<p[1][1], p[2][2]>> \in E}
            of   == [p \in P |-> <<p[1][1], p[1][2], p[2][2]>>]
<1>1. IsFiniteSet(E)
  BY FS_Subset DEF Weighting, ActiveEdges
<1>2. IsFiniteSet(E \X E)
  BY <1>1, FS_Product
<1>3. IsFiniteSet(P)
  <2>1. P \in SUBSET (E \X E)
    OBVIOUS
  <2>. HIDE DEF P
  <2>2. QED
    BY <1>2, <2>1, FS_Subset
<1>4. Triangles(w) = {of[p] : p \in P}
  BY DEF Triangles
<1>5. IsFiniteSet(Triangles(w))
  <2>. HIDE DEF P
  <2>1. of \in Surjection(P, {of[p] : p \in P})
    BY DEF Surjection
  <2>. HIDE DEF of
  <2>2. QED
    BY <1>3, <1>4, <2>1, FS_Surjection
<1>6. QED
  BY <1>1, <1>5, FS_Union DEF Simplices

\* The positions of the edges, or of the triangles, number them in order.
LEMMA PositionsNumber ==
  ASSUME NEW w, Weighting(w), NEW S, S \in {ActiveEdges(w), Triangles(w)}
  PROVE  /\ DOMAIN Positions(w, S) = S
         /\ \A s \in S : Positions(w, S)[s] \in 1 .. Cardinality(S)
         /\ Cardinality(S) \in Nat
         /\ \A s, t \in S : Positions(w, S)[s] = Positions(w, S)[t] => s = t
         /\ \A s, t \in S : Precedes(w, s, t) => Positions(w, S)[s] < Positions(w, S)[t]
<1>. DEFINE R == OrderOn(w, S)
<1>1. IsFiniteSet(S)
  BY SimplicesFinite
<1>2. Orders(R, S)
  BY OrderIsTotal
<1>3. /\ Cardinality(S) \in Nat
      /\ \A x \in S : Rank(R, S, x) \in 0 .. Cardinality(S) - 1
      /\ \A x, y \in S : Rank(R, S, x) = Rank(R, S, y) => x = y
      /\ \A x, y \in S : <<x, y>> \in R => Rank(R, S, x) < Rank(R, S, y)
  <2>. HIDE DEF R
  <2>1. QED
    BY <1>1, <1>2, RanksNumber
<1>4. ASSUME NEW s \in S
      PROVE  Positions(w, S)[s] = 1 + Rank(R, S, s)
  <2>1. Len(s) # 1
    BY EdgeFacts, TriangleFacts
  <2>2. {t \in S : IF Len(s) = 1 THEN t[1] < s[1] ELSE Precedes(w, t, s)}
          = {t \in S : <<t, s>> \in R}
    BY <2>1 DEF OrderOn
  <2>3. QED
    BY <2>2 DEF Positions, Rank
<1>5. DOMAIN Positions(w, S) = S
  BY DEF Positions
<1>6. \A s, t \in S : Precedes(w, s, t) => <<s, t>> \in R
  BY DEF OrderOn
<1>7. \A s \in S : Positions(w, S)[s] \in 1 .. Cardinality(S) /\ Rank(R, S, s) \in Nat
  <2>. HIDE DEF R
  <2>1. QED
    BY <1>3, <1>4
<1>8. \A s, t \in S : Positions(w, S)[s] = Positions(w, S)[t] => s = t
  <2>. HIDE DEF R
  <2>1. QED
    BY <1>3, <1>4, <1>7
<1>9. ASSUME NEW s \in S, NEW t \in S, Precedes(w, s, t)
      PROVE  Positions(w, S)[s] < Positions(w, S)[t]
  <2>1. <<s, t>> \in R
    BY <1>6, <1>9
  <2>. HIDE DEF R
  <2>2. Rank(R, S, s) < Rank(R, S, t)
    BY <1>3, <2>1
  <2>3. QED
    BY <1>4, <1>7, <2>2
<1>10. QED
  BY <1>3, <1>5, <1>7, <1>8, <1>9

-----------------------------------------------------------------------------
(* Reindexing *)

\* The boundary column that a column stands for, by its rows.
ColumnOf(D, v) ==
  [r \in D |-> MapThenSumSet(LAMBDA t : v[t] * Incidence(t, r), Support(v)) % Modulus]

LEMMA ColumnByRows ==
  ASSUME NEW rows, NEW v
  PROVE  ReducedColumn(rows, v) = ColumnOf(DOMAIN rows, v)
BY DEF ReducedColumn, ColumnOf

\* The rows that a column of rows D uses, and the last of these.
RowsOf(D, v) == Support(ColumnOf(D, v))
Last(rows, S) == {r \in S : \A q \in S : rows[q] <= rows[r]}

LEMMA PivotIsLast ==
  ASSUME NEW rows, NEW v
  PROVE  /\ PivotOf(rows, v) = Last(rows, RowsOf(DOMAIN rows, v))
         /\ RowsOf(DOMAIN rows, v) \subseteq DOMAIN rows
<1>1. RowsOf(DOMAIN rows, v) \subseteq DOMAIN rows
  BY DEF RowsOf, Support, ColumnOf
<1>2. PivotOf(rows, v) = Last(rows, RowsOf(DOMAIN rows, v))
  BY ColumnByRows DEF PivotOf, Last, RowsOf
<1>3. QED
  BY <1>1, <1>2

\* The parts of a complex.
LEMMA ComplexParts ==
  ASSUME NEW w
  PROVE  /\ Complex(w).vertices = Positions(w, VerticesOf(w))
         /\ Complex(w).edges = Positions(w, ActiveEdges(w))
         /\ Complex(w).triangles = Positions(w, Triangles(w))
BY DEF Complex

\* The vertices are in the order of their numbers, whatever the weights.
LEMMA VerticesStay ==
  ASSUME NEW w, NEW x, DOMAIN x = DOMAIN w
  PROVE  Complex(x).vertices = Complex(w).vertices
<1>1. VerticesOf(x) = VerticesOf(w)
  BY DEF VerticesOf
<1>2. \A s \in VerticesOf(w) : Len(s) = 1
  BY DEF VerticesOf
<1>3. Positions(x, VerticesOf(w)) = Positions(w, VerticesOf(w))
  BY <1>2 DEF Positions
<1>4. QED
  BY <1>1, <1>3, ComplexParts

\* No edge is a triangle.
LEMMA EdgeOrTriangle ==
  ASSUME NEW w, Weighting(w)
  PROVE  ActiveEdges(w) \cap Triangles(w) = {}
BY EdgeFacts, TriangleFacts

\* Rows that are not none have one last row, after all others.
LEMMA LastExists ==
  ASSUME NEW w, Weighting(w), NEW S \in SUBSET ActiveEdges(w), S # {}
  PROVE  \E p \in S : /\ Last(Complex(w).edges, S) = {p}
                      /\ \A q \in S \ {p} : Complex(w).edges[q] < Complex(w).edges[p]
<1>. DEFINE E    == ActiveEdges(w)
            rows == Complex(w).edges
            size == Cardinality(E)
            gaps == {size - rows[q] : q \in S}
<1>1. /\ \A s \in E : rows[s] \in 1 .. size
      /\ size \in Nat
      /\ \A s, t \in E : rows[s] = rows[t] => s = t
  BY PositionsNumber, ComplexParts
<1>. HIDE DEF E, rows, size
<1>2. S \subseteq E
  BY DEF E
<1>3. gaps \in SUBSET Nat /\ gaps # {}
  BY <1>1, <1>2
<1>4. Min(gaps) \in gaps /\ \A n \in gaps : Min(gaps) <= n
  <2>. HIDE DEF gaps
  <2>1. QED
    BY <1>3, MinOfNaturals
<1>5. PICK p \in S : Min(gaps) = size - rows[p]
  BY <1>4
<1>6. ASSUME NEW q \in S
      PROVE  rows[q] \in Int /\ rows[p] \in Int /\ rows[q] <= rows[p]
  <2>1. size - rows[q] \in gaps
    OBVIOUS
  <2>2. size - rows[p] <= size - rows[q]
    BY <1>4, <1>5, <2>1
  <2>3. rows[q] \in 1 .. size /\ rows[p] \in 1 .. size
    BY <1>1, <1>2
  <2>4. QED
    BY <1>1, <2>2, <2>3
<1>7. \A q \in S \ {p} : rows[q] < rows[p]
  BY <1>1, <1>2, <1>6
<1>8. Last(rows, S) = {p}
  BY <1>6, <1>7 DEF Last
<1>9. QED
  BY <1>7, <1>8 DEF rows

\* What it says that a reduction checks.
LEMMA ChecksSay ==
  ASSUME NEW w, NEW c, ReductionsCheck(w, c)
  PROVE  /\ DOMAIN c.edges = ActiveEdges(w)
         /\ DOMAIN c.triangles = Triangles(w)
         /\ \A s \in ActiveEdges(w) : UnitTriangular(Complex(w).edges, s, c.edges[s])
         /\ \A s \in Triangles(w) : UnitTriangular(Complex(w).triangles, s, c.triangles[s])
<1>1. /\ DOMAIN Complex(w).edges = ActiveEdges(w)
      /\ DOMAIN Complex(w).triangles = Triangles(w)
  BY ComplexParts DEF Positions
<1>2. QED
  BY <1>1 DEF ReductionsCheck, MatrixChecks

\* A change guard is of two simplices of its dimension, in order.
LEMMA ChangeGuardsRise ==
  ASSUME NEW w, Weighting(w), NEW S, S \in {ActiveEdges(w), Triangles(w)},
         NEW V, DOMAIN V = S, \A s \in S : UnitTriangular(Positions(w, S), s, V[s]),
         NEW g \in ChangeGuards(V)
  PROVE  /\ g \in S \X S
         /\ Positions(w, S)[g[1]] < Positions(w, S)[g[2]]
<1>. DEFINE P == Positions(w, S)
<1>1. PICK s \in S : g \in {<<t, s>> : t \in Support(V[s]) \ {s}}
  BY DEF ChangeGuards
<1>2. PICK t \in Support(V[s]) \ {s} : g = <<t, s>>
  BY <1>1
<1>3. /\ DOMAIN P = S
      /\ \A x \in S : P[x] \in 1 .. Cardinality(S)
      /\ Cardinality(S) \in Nat
      /\ \A x, y \in S : P[x] = P[y] => x = y
  BY PositionsNumber
<1>4. t \in S /\ P[t] <= P[s]
  BY <1>2, <1>3 DEF UnitTriangular
<1>. HIDE DEF P
<1>5. P[t] < P[s]
  BY <1>2, <1>3, <1>4
<1>6. QED
  BY <1>2, <1>4, <1>5 DEF P

\* A pivot guard is of a row and the last row of a column of a triangle.
LEMMA PivotGuardsRise ==
  ASSUME NEW w, Weighting(w), NEW c, NEW g \in PivotGuards(w, c)
  PROVE  /\ g \in ActiveEdges(w) \X ActiveEdges(w)
         /\ Complex(w).edges[g[1]] < Complex(w).edges[g[2]]
<1>. DEFINE rows == Complex(w).edges
            S(t) == RowsOf(DOMAIN rows, c.triangles[t])
<1>1. PICK t \in DOMAIN Complex(w).triangles :
        g \in (Support(ReducedColumn(rows, c.triangles[t])) \X PivotOf(rows, c.triangles[t]))
                \ {<<r, r>> : r \in Support(ReducedColumn(rows, c.triangles[t]))}
  BY DEF PivotGuards
<1>2. DOMAIN rows = ActiveEdges(w)
  BY ComplexParts DEF Positions
<1>3. /\ Support(ReducedColumn(rows, c.triangles[t])) = S(t)
      /\ PivotOf(rows, c.triangles[t]) = Last(rows, S(t))
      /\ S(t) \subseteq ActiveEdges(w)
  BY <1>2, ColumnByRows, PivotIsLast DEF RowsOf
<1>4. PICK q \in S(t), p \in Last(rows, S(t)) : g = <<q, p>> /\ q # p
  <2>. HIDE DEF rows, S
  <2>1. QED
    BY <1>1, <1>3
<1>5. S(t) # {} /\ S(t) \in SUBSET ActiveEdges(w)
  BY <1>3, <1>4
<1>6. PICK m \in S(t) : /\ Last(rows, S(t)) = {m}
                        /\ \A r \in S(t) \ {m} : rows[r] < rows[m]
  <2>. HIDE DEF S
  <2>1. QED
    BY <1>5, LastExists
<1>7. QED
  BY <1>3, <1>4, <1>6

\* The numbers of the edges and of the triangles, as one function.
Places(w) ==
  [s \in Simplices(w) |-> IF s \in ActiveEdges(w) THEN Complex(w).edges[s]
                                                  ELSE Complex(w).triangles[s]]

\* Every guard goes up.
LEMMA GuardsRise ==
  ASSUME NEW w, Weighting(w), NEW c, ReductionsCheck(w, c)
  PROVE  /\ CompleteGuards(w, c) \subseteq Simplices(w) \X Simplices(w)
         /\ \A g \in CompleteGuards(w, c) : Places(w)[g[1]] < Places(w)[g[2]]
         /\ Places(w) \in [Simplices(w) -> Nat]
<1>1. /\ Complex(w).edges = Positions(w, ActiveEdges(w))
      /\ Complex(w).triangles = Positions(w, Triangles(w))
  BY ComplexParts
<1>2. /\ \A s \in ActiveEdges(w) : Places(w)[s] = Complex(w).edges[s]
      /\ \A s \in Triangles(w) : Places(w)[s] = Complex(w).triangles[s]
  BY EdgeOrTriangle DEF Places, Simplices
<1>3. ASSUME NEW g \in ChangeGuards(c.edges)
      PROVE  g \in ActiveEdges(w) \X ActiveEdges(w) /\ Places(w)[g[1]] < Places(w)[g[2]]
  BY <1>1, <1>2, ChecksSay, ChangeGuardsRise
<1>4. ASSUME NEW g \in ChangeGuards(c.triangles)
      PROVE  g \in Triangles(w) \X Triangles(w) /\ Places(w)[g[1]] < Places(w)[g[2]]
  BY <1>1, <1>2, ChecksSay, ChangeGuardsRise
<1>5. ASSUME NEW g \in PivotGuards(w, c)
      PROVE  g \in ActiveEdges(w) \X ActiveEdges(w) /\ Places(w)[g[1]] < Places(w)[g[2]]
  BY <1>2, PivotGuardsRise
<1>6. ASSUME NEW s \in Simplices(w)
      PROVE  Places(w)[s] \in Nat
  <2>1. CASE s \in ActiveEdges(w)
    <3>1. /\ Positions(w, ActiveEdges(w))[s] \in 1 .. Cardinality(ActiveEdges(w))
          /\ Cardinality(ActiveEdges(w)) \in Nat
      BY <2>1, PositionsNumber
    <3>2. QED
      BY <1>1, <1>2, <2>1, <3>1
  <2>2. CASE s \in Triangles(w)
    <3>1. /\ Positions(w, Triangles(w))[s] \in 1 .. Cardinality(Triangles(w))
          /\ Cardinality(Triangles(w)) \in Nat
      BY <2>2, PositionsNumber
    <3>2. QED
      BY <1>1, <1>2, <2>2, <3>1
  <2>3. QED
    BY <2>1, <2>2 DEF Simplices
<1>7. Places(w) \in [Simplices(w) -> Nat]
  <2>1. Places(w) = [s \in Simplices(w) |-> Places(w)[s]]
    BY DEF Places
  <2>2. QED
    BY <1>6, <2>1
<1>8. QED
  BY <1>3, <1>4, <1>5, <1>7 DEF CompleteGuards, Simplices

\* A region at whose edges nothing else has changed.
LEMMA AcceptedAlike ==
  ASSUME NEW w, NEW x, NEW c, Accepts(CompileRegion(w, c), x)
  PROVE  /\ DOMAIN x = DOMAIN w
         /\ ActiveEdges(x) = ActiveEdges(w)
         /\ Triangles(x) = Triangles(w)
         /\ Simplices(x) = Simplices(w)
<1>1. /\ CompileRegion(w, c).listed = DOMAIN w
      /\ CompileRegion(w, c).active = ActiveEdges(w)
  BY DEF CompileRegion
<1>2. DOMAIN x = DOMAIN w /\ ActiveEdges(x) = ActiveEdges(w)
  BY <1>1 DEF Accepts
<1>3. Triangles(x) = Triangles(w)
  BY <1>2 DEF Triangles
<1>4. QED
  BY <1>2, <1>3 DEF Simplices

\* The guards of a region imply all the comparisons that its reduction makes.
LEMMA GuardsHold ==
  ASSUME NEW w, Weighting(w), NEW x, Weighting(x), NEW c, ReductionsCheck(w, c),
         Accepts(CompileRegion(w, c), x)
  PROVE  \A g \in CompleteGuards(w, c) : Precedes(x, g[1], g[2])
<1>. DEFINE guards == CompleteGuards(w, c)
            N      == Simplices(w)
            R      == OrderOn(x, Simplices(x))
<1>1. Simplices(x) = N
  BY AcceptedAlike
<1>2. /\ guards \subseteq N \X N
      /\ \A g \in guards : Places(w)[g[1]] < Places(w)[g[2]]
      /\ Places(w) \in [N -> Nat]
  BY GuardsRise
<1>3. IsFiniteSet(guards)
  <2>1. IsFiniteSet(N)
    BY SimplicesFinite
  <2>2. IsFiniteSet(N \X N)
    BY <2>1, FS_Product
  <2>. HIDE DEF guards, N
  <2>3. guards \in SUBSET (N \X N)
    BY <1>2
  <2>4. QED
    BY <2>2, <2>3, FS_Subset
<1>4. Chains(R, N)
  BY <1>1, OrderChains
<1>5. MinimizeGuards(guards) \subseteq R
  <2>1. CompileRegion(w, c).guards = MinimizeGuards(guards)
    BY DEF CompileRegion
  <2>2. \A g \in MinimizeGuards(guards) : Precedes(x, g[1], g[2])
    BY <2>1 DEF Accepts, GuardHolds
  <2>3. MinimizeGuards(guards) \subseteq guards
    BY DEF MinimizeGuards
  <2>. HIDE DEF guards
  <2>4. QED
    BY <1>1, <1>2, <2>2, <2>3 DEF OrderOn
<1>6. guards \subseteq R
  <2>. HIDE DEF guards, N, R
  <2>1. QED
    BY <1>2, <1>3, <1>4, <1>5, MinimizedImply
<1>7. QED
  BY <1>6 DEF OrderOn

\* Columns whose terms stay before them stay unit triangular.
LEMMA TriangularStays ==
  ASSUME NEW w, Weighting(w), NEW x, Weighting(x), NEW S,
         S \in {ActiveEdges(w), Triangles(w)}, S \in {ActiveEdges(x), Triangles(x)},
         NEW V, DOMAIN V = S, \A g \in ChangeGuards(V) : Precedes(x, g[1], g[2]),
         NEW s \in S, UnitTriangular(Positions(w, S), s, V[s])
  PROVE  UnitTriangular(Positions(x, S), s, V[s])
<1>. DEFINE P == Positions(x, S)
<1>1. /\ DOMAIN P = S /\ DOMAIN Positions(w, S) = S
      /\ \A q, r \in S : Precedes(x, q, r) => P[q] < P[r]
      /\ \A q \in S : P[q] \in 1 .. Cardinality(S)
      /\ Cardinality(S) \in Nat
  BY PositionsNumber
<1>2. V[s][s] = 1 /\ \A t \in Support(V[s]) : t \in S
  BY <1>1 DEF UnitTriangular
<1>3. ASSUME NEW t \in Support(V[s])
      PROVE  P[t] <= P[s]
  <2>1. CASE t = s
    <3>. HIDE DEF P
    <3>1. QED
      BY <1>1, <2>1
  <2>2. CASE t # s
    <3>1. <<t, s>> \in ChangeGuards(V)
      BY <2>2 DEF ChangeGuards
    <3>2. Precedes(x, t, s)
      BY <3>1
    <3>. HIDE DEF P
    <3>3. QED
      BY <1>1, <1>2, <3>2
  <2>3. QED
    BY <2>1, <2>2
<1>4. QED
  BY <1>1, <1>2, <1>3 DEF UnitTriangular

\* The last row of a column that other rows do not pass stays the last.
LEMMA LastStays ==
  ASSUME NEW w, Weighting(w), NEW x, Weighting(x), ActiveEdges(x) = ActiveEdges(w),
         NEW S \in SUBSET ActiveEdges(w),
         \A q \in S : \A p \in Last(Complex(w).edges, S) : q # p => Precedes(x, q, p)
  PROVE  Last(Complex(x).edges, S) = Last(Complex(w).edges, S)
<1>1. CASE S = {}
  BY <1>1 DEF Last
<1>2. CASE S # {}
  <2>1. PICK p \in S : Last(Complex(w).edges, S) = {p}
    BY <1>2, LastExists
  <2>2. PICK m \in S : /\ Last(Complex(x).edges, S) = {m}
                       /\ \A q \in S \ {m} : Complex(x).edges[q] < Complex(x).edges[m]
    BY <1>2, LastExists
  <2>3. ASSUME m # p
        PROVE  FALSE
    <3>. DEFINE P == Positions(x, ActiveEdges(x))
    <3>1. Precedes(x, m, p)
      BY <2>1, <2>3
    <3>2. P[m] < P[p] /\ P[p] < P[m]
      <4>1. P[m] < P[p]
        BY <3>1, PositionsNumber
      <4>2. P = Complex(x).edges
        BY ComplexParts
      <4>3. P[p] < P[m]
        BY <2>2, <2>3, <4>2
      <4>4. QED
        BY <4>1, <4>3
    <3>3. P[m] \in Int /\ P[p] \in Int
      <4>1. /\ P[m] \in 1 .. Cardinality(ActiveEdges(x))
            /\ P[p] \in 1 .. Cardinality(ActiveEdges(x))
        BY PositionsNumber
      <4>. HIDE DEF P
      <4>2. QED
        BY <4>1
    <3>. HIDE DEF P
    <3>4. QED
      BY <3>2, <3>3
  <2>4. QED
    BY <2>1, <2>2, <2>3
<1>3. QED
  BY <1>1, <1>2

\* While a region accepts, every column keeps its pivot.
LEMMA PivotsStay ==
  ASSUME NEW w, Weighting(w), NEW x, Weighting(x), NEW c, ReductionsCheck(w, c),
         Accepts(CompileRegion(w, c), x)
  PROVE  /\ \A v : PivotOf(Complex(x).vertices, v) = PivotOf(Complex(w).vertices, v)
         /\ \A t \in Triangles(w) :
              PivotOf(Complex(x).edges, c.triangles[t]) = PivotOf(Complex(w).edges, c.triangles[t])
<1>1. /\ DOMAIN x = DOMAIN w
      /\ ActiveEdges(x) = ActiveEdges(w)
  BY AcceptedAlike
<1>2. Complex(x).vertices = Complex(w).vertices
  BY <1>1, VerticesStay
<1>3. DOMAIN Complex(x).edges = ActiveEdges(w) /\ DOMAIN Complex(w).edges = ActiveEdges(w)
  BY <1>1, ComplexParts DEF Positions
<1>4. ASSUME NEW t \in Triangles(w)
      PROVE  PivotOf(Complex(x).edges, c.triangles[t]) = PivotOf(Complex(w).edges, c.triangles[t])
  <2>. DEFINE v == c.triangles[t]
              S == RowsOf(ActiveEdges(w), v)
  <2>1. /\ PivotOf(Complex(x).edges, v) = Last(Complex(x).edges, S)
        /\ PivotOf(Complex(w).edges, v) = Last(Complex(w).edges, S)
        /\ S \subseteq ActiveEdges(w)
    BY <1>3, PivotIsLast
  <2>2. Support(ReducedColumn(Complex(w).edges, v)) = S
    BY <1>3, ColumnByRows DEF RowsOf
  <2>3. t \in DOMAIN Complex(w).triangles
    BY ComplexParts DEF Positions
  <2>4. ASSUME NEW q \in S, NEW p \in Last(Complex(w).edges, S), q # p
        PROVE  Precedes(x, q, p)
    <3>1. <<q, p>> \in PivotGuards(w, c)
      <4>1. <<q, p>> \in (Support(ReducedColumn(Complex(w).edges, v)) \X PivotOf(Complex(w).edges, v))
                           \ {<<r, r>> : r \in Support(ReducedColumn(Complex(w).edges, v))}
        <5>. HIDE DEF S, v
        <5>1. QED
          BY <2>1, <2>2, <2>4
      <4>2. QED
        BY <2>3, <4>1 DEF PivotGuards
    <3>2. <<q, p>> \in CompleteGuards(w, c)
      BY <3>1 DEF CompleteGuards
    <3>3. Precedes(x, <<q, p>>[1], <<q, p>>[2])
      <4>. HIDE DEF S
      <4>1. QED
        BY <3>2, GuardsHold
    <3>4. QED
      BY <3>3
  <2>5. Last(Complex(x).edges, S) = Last(Complex(w).edges, S)
    <3>. HIDE DEF S
    <3>1. QED
      BY <1>1, <2>1, <2>4, LastStays
  <2>6. QED
    BY <2>1, <2>5
<1>5. QED
  BY <1>2, <1>4

\* Whatever weights a region accepts, its reduction checks there.
LEMMA AcceptedChecks ==
  ASSUME NEW w, Weighting(w), NEW x, Weighting(x), NEW c, ReductionsCheck(w, c),
         Accepts(CompileRegion(w, c), x)
  PROVE  ReductionsCheck(x, c)
<1>. DEFINE E == ActiveEdges(w)
            T == Triangles(w)
<1>1. ActiveEdges(x) = E /\ Triangles(x) = T
  BY AcceptedAlike
<1>2. /\ Complex(w).edges = Positions(w, E) /\ Complex(w).triangles = Positions(w, T)
      /\ Complex(x).edges = Positions(x, E) /\ Complex(x).triangles = Positions(x, T)
  BY <1>1, ComplexParts
<1>3. /\ DOMAIN Complex(w).edges = E /\ DOMAIN Complex(w).triangles = T
      /\ DOMAIN Complex(x).edges = E /\ DOMAIN Complex(x).triangles = T
  BY <1>2 DEF Positions
<1>4. /\ DOMAIN c.edges = E /\ DOMAIN c.triangles = T
      /\ \A s \in E : UnitTriangular(Positions(w, E), s, c.edges[s])
      /\ \A s \in T : UnitTriangular(Positions(w, T), s, c.triangles[s])
  BY <1>2, ChecksSay
<1>5. /\ \A g \in ChangeGuards(c.edges) : Precedes(x, g[1], g[2])
      /\ \A g \in ChangeGuards(c.triangles) : Precedes(x, g[1], g[2])
  BY GuardsHold DEF CompleteGuards
<1>6. ASSUME NEW s \in E
      PROVE  UnitTriangular(Complex(x).edges, s, c.edges[s])
  <2>. HIDE DEF T
  <2>1. E \in {ActiveEdges(w), Triangles(w)} /\ E \in {ActiveEdges(x), Triangles(x)}
    BY <1>1
  <2>2. UnitTriangular(Positions(w, E), s, c.edges[s])
    BY <1>4
  <2>. HIDE DEF E
  <2>3. UnitTriangular(Positions(x, E), s, c.edges[s])
    BY <1>4, <1>5, <2>1, <2>2, TriangularStays
  <2>4. QED
    BY <1>2, <2>3
<1>7. ASSUME NEW s \in T
      PROVE  UnitTriangular(Complex(x).triangles, s, c.triangles[s])
  <2>. HIDE DEF E
  <2>1. T \in {ActiveEdges(w), Triangles(w)} /\ T \in {ActiveEdges(x), Triangles(x)}
    BY <1>1
  <2>2. UnitTriangular(Positions(w, T), s, c.triangles[s])
    BY <1>4
  <2>. HIDE DEF T
  <2>3. UnitTriangular(Positions(x, T), s, c.triangles[s])
    BY <1>4, <1>5, <2>1, <2>2, TriangularStays
  <2>4. QED
    BY <1>2, <2>3
<1>8. /\ \A v : PivotOf(Complex(x).vertices, v) = PivotOf(Complex(w).vertices, v)
      /\ \A t \in T :
           PivotOf(Complex(x).edges, c.triangles[t]) = PivotOf(Complex(w).edges, c.triangles[t])
  BY PivotsStay
<1>. HIDE DEF E, T
<1>9. MatrixChecks(Complex(x).vertices, Complex(x).edges, c.edges, E)
  <2>1. MatrixChecks(Complex(w).vertices, Complex(w).edges, c.edges, E)
    BY <1>3 DEF ReductionsCheck
  <2>2. {<<s, PivotOf(Complex(x).vertices, c.edges[s])>> : s \in E}
          = {<<s, PivotOf(Complex(w).vertices, c.edges[s])>> : s \in E}
    BY <1>8
  <2>3. QED
    BY <1>6, <2>1, <2>2 DEF MatrixChecks
<1>10. MatrixChecks(Complex(x).edges, Complex(x).triangles, c.triangles, T)
  <2>1. MatrixChecks(Complex(w).edges, Complex(w).triangles, c.triangles, T)
    BY <1>3 DEF ReductionsCheck
  <2>2. {<<s, PivotOf(Complex(x).edges, c.triangles[s])>> : s \in T}
          = {<<s, PivotOf(Complex(w).edges, c.triangles[s])>> : s \in T}
    BY <1>8
  <2>3. QED
    BY <1>7, <2>1, <2>2 DEF MatrixChecks
<1>11. QED
  BY <1>3, <1>4, <1>9, <1>10 DEF ReductionsCheck

\* And compiles to the same region: the pairs, the joins and the guards are those
\* of the pivots, which stay.
LEMMA AcceptedRegion ==
  ASSUME NEW w, Weighting(w), NEW x, Weighting(x), NEW c, ReductionsCheck(w, c),
         Accepts(CompileRegion(w, c), x)
  PROVE  /\ CompileRegion(x, c) = CompileRegion(w, c)
         /\ Pairs(x, c) = Pairs(w, c) /\ Joins(x, c) = Joins(w, c)
<1>. DEFINE E == ActiveEdges(w)
            T == Triangles(w)
<1>1. ActiveEdges(x) = E /\ Triangles(x) = T /\ DOMAIN x = DOMAIN w
  BY AcceptedAlike
<1>2. /\ DOMAIN Complex(w).edges = E /\ DOMAIN Complex(w).triangles = T
      /\ DOMAIN Complex(x).edges = E /\ DOMAIN Complex(x).triangles = T
  BY <1>1, ComplexParts DEF Positions
<1>3. /\ \A v : PivotOf(Complex(x).vertices, v) = PivotOf(Complex(w).vertices, v)
      /\ \A t \in T :
           PivotOf(Complex(x).edges, c.triangles[t]) = PivotOf(Complex(w).edges, c.triangles[t])
  BY PivotsStay
<1>4. \A v : ReducedColumn(Complex(x).edges, v) = ReducedColumn(Complex(w).edges, v)
  BY <1>2, ColumnByRows
<1>. HIDE DEF E, T
<1>5. Cycles(Complex(x), c) = Cycles(Complex(w), c)
  BY <1>2, <1>3 DEF Cycles
<1>6. Joins(x, c) = Joins(w, c)
  BY <1>2, <1>5 DEF Joins
<1>7. Pairs(x, c) = Pairs(w, c)
  <2>1. {<<PivotOf(Complex(x).edges, c.triangles[t]), t>> : t \in T}
          = {<<PivotOf(Complex(w).edges, c.triangles[t]), t>> : t \in T}
    BY <1>3
  <2>2. QED
    BY <1>2, <1>5, <2>1 DEF Pairs
<1>8. PivotGuards(x, c) = PivotGuards(w, c)
  BY <1>2, <1>3, <1>4 DEF PivotGuards
<1>9. CompleteGuards(x, c) = CompleteGuards(w, c)
  BY <1>8 DEF CompleteGuards
<1>10. CompileRegion(x, c) = CompileRegion(w, c)
  BY <1>1, <1>6, <1>7, <1>9 DEF CompileRegion, E
<1>11. QED
  BY <1>6, <1>7, <1>10

\* The positions decide the order.
LEMMA PositionsDecide ==
  ASSUME NEW w, Weighting(w), NEW S, S \in {ActiveEdges(w), Triangles(w)},
         NEW s \in S, NEW t \in S, Positions(w, S)[s] < Positions(w, S)[t]
  PROVE  Precedes(w, s, t)
<1>. DEFINE P == Positions(w, S)
<1>1. /\ \A q \in S : P[q] \in 1 .. Cardinality(S)
      /\ Cardinality(S) \in Nat
      /\ \A q, r \in S : Precedes(w, q, r) => P[q] < P[r]
  BY PositionsNumber
<1>2. P[s] < P[t]
  OBVIOUS
<1>3. s # t /\ ~Precedes(w, t, s)
  <2>. HIDE DEF P
  <2>1. P[s] \in Int /\ P[t] \in Int
    BY <1>1
  <2>2. QED
    BY <1>1, <1>2, <2>1
<1>4. Orders(OrderOn(w, S), S)
  BY OrderIsTotal
<1>5. <<s, t>> \in OrderOn(w, S) \/ <<t, s>> \in OrderOn(w, S)
  BY <1>3, <1>4 DEF Orders
<1>6. QED
  BY <1>3, <1>5 DEF OrderOn

\* The region of a reduction accepts the weights at which it is compiled.
LEMMA RegionAcceptsItself ==
  ASSUME NEW w, Weighting(w), NEW c, ReductionsCheck(w, c)
  PROVE  Accepts(CompileRegion(w, c), w)
<1>1. /\ Complex(w).edges = Positions(w, ActiveEdges(w))
      /\ Complex(w).triangles = Positions(w, Triangles(w))
  BY ComplexParts
<1>2. ASSUME NEW g \in ChangeGuards(c.edges)
      PROVE  Precedes(w, g[1], g[2])
  <2>1. /\ g \in ActiveEdges(w) \X ActiveEdges(w)
        /\ Positions(w, ActiveEdges(w))[g[1]] < Positions(w, ActiveEdges(w))[g[2]]
    BY <1>1, ChecksSay, ChangeGuardsRise
  <2>2. QED
    BY <2>1, PositionsDecide
<1>3. ASSUME NEW g \in ChangeGuards(c.triangles)
      PROVE  Precedes(w, g[1], g[2])
  <2>1. /\ g \in Triangles(w) \X Triangles(w)
        /\ Positions(w, Triangles(w))[g[1]] < Positions(w, Triangles(w))[g[2]]
    BY <1>1, ChecksSay, ChangeGuardsRise
  <2>2. QED
    BY <2>1, PositionsDecide
<1>4. ASSUME NEW g \in PivotGuards(w, c)
      PROVE  Precedes(w, g[1], g[2])
  <2>1. /\ g \in ActiveEdges(w) \X ActiveEdges(w)
        /\ Positions(w, ActiveEdges(w))[g[1]] < Positions(w, ActiveEdges(w))[g[2]]
    BY <1>1, PivotGuardsRise
  <2>2. QED
    BY <2>1, PositionsDecide
<1>5. \A g \in MinimizeGuards(CompleteGuards(w, c)) : Precedes(w, g[1], g[2])
  BY <1>2, <1>3, <1>4 DEF MinimizeGuards, CompleteGuards
<1>6. /\ CompileRegion(w, c).guards = MinimizeGuards(CompleteGuards(w, c))
      /\ CompileRegion(w, c).listed = DOMAIN w
      /\ CompileRegion(w, c).active = ActiveEdges(w)
  BY DEF CompileRegion
<1>7. QED
  BY <1>5, <1>6 DEF Accepts, GuardHolds

-----------------------------------------------------------------------------
(* The atom *)

\* The inductive invariant of an atom: its reduction checks at its weights, its
\* region is the one of the reduction there, and the checker has the reduction.
AtomInv ==
  /\ weights \in Weightings
  /\ ReductionsCheck(weights, cert)
  /\ region = CompileRegion(weights, cert)
  /\ checked.cert = cert

\* The assumption, weighting by weighting.
LEMMA EveryWeighting == \A w \in Weightings : Weighting(w)
BY WeightingsAssumption DEF Weighting

\* What a region accepts can be reused.
LEMMA AcceptedReuses ==
  ASSUME AtomInv, NEW w \in Weightings, Accepts(region, w)
  PROVE  /\ ReductionsCheck(w, cert)
         /\ CompileRegion(w, cert) = region
         /\ Evaluate(region, w) = CertifiedDiagram(w, cert)
<1>1. Weighting(weights) /\ Weighting(w)
  BY EveryWeighting DEF AtomInv
<1>2. ReductionsCheck(weights, cert) /\ Accepts(CompileRegion(weights, cert), w)
  BY DEF AtomInv
<1>3. ReductionsCheck(w, cert)
  BY <1>1, <1>2, AcceptedChecks
<1>4. /\ CompileRegion(w, cert) = CompileRegion(weights, cert)
      /\ Pairs(w, cert) = Pairs(weights, cert) /\ Joins(w, cert) = Joins(weights, cert)
  BY <1>1, <1>2, AcceptedRegion
<1>5. region.pairs = Pairs(w, cert) /\ region.joins = Joins(w, cert)
  BY <1>4 DEF AtomInv, CompileRegion
<1>6. QED
  BY <1>3, <1>4, <1>5 DEF AtomInv, Evaluate, CertifiedDiagram

LEMMA AtomStarts == AtomInit => AtomInv
BY DEF AtomInit, CompiledAtom, AtomInv

\* Reuse, repair and recompilation keep the invariant.
LEMMA AtomSteps == AtomInv /\ [AtomNext]_atomVars => AtomInv'
<1>. SUFFICES ASSUME AtomInv, [AtomNext]_atomVars PROVE AtomInv'
  OBVIOUS
<1>1. ASSUME NEW w \in Weightings, Reuse(w)
      PROVE  AtomInv'
  <2>1. Accepts(region, w) /\ weights' = w /\ UNCHANGED <<cert, region, checked>>
    BY <1>1 DEF Reuse, ReusableAtom
  <2>2. ReductionsCheck(w, cert) /\ CompileRegion(w, cert) = region
    BY <2>1, AcceptedReuses
  <2>3. QED
    BY <2>1, <2>2 DEF AtomInv
<1>2. ASSUME NEW w \in Weightings, NEW c, RepairedAtom(w, c)
      PROVE  AtomInv'
  <2>1. /\ ReductionsCheck(w, c) /\ weights' = w /\ cert' = c /\ region' = CompileRegion(w, c)
        /\ checked'.cert = c
    BY <1>2 DEF RepairedAtom
  <2>2. QED
    BY <2>1 DEF AtomInv
<1>3. ASSUME NEW w \in Weightings, NEW fails, RepairAtom(w, fails)
      PROVE  AtomInv'
  BY <1>2, <1>3 DEF RepairAtom
<1>4. ASSUME NEW w \in Weightings, RecompileAtom(w)
      PROVE  AtomInv'
  BY <1>2, <1>4 DEF RecompileAtom
<1>5. CASE UNCHANGED atomVars
  BY <1>5 DEF atomVars, AtomInv
<1>6. QED
  BY <1>1, <1>3, <1>4, <1>5 DEF AtomNext, UpdateAtom

\* After any number of reuses, repairs and recompilations the region that the
\* producer keeps is the one that a verifier compiles from the reduction at the
\* current weights (program/update/atom.rs, certificate/region.rs).
THEOREM RegionKeptIsCompiled == AtomSpec => []RegionStable
<1>1. AtomInv => RegionStable
  BY DEF AtomInv, RegionStable
<1>2. QED
  BY <1>1, AtomStarts, AtomSteps, PTL DEF AtomSpec

\* Weights that satisfy the few guards that are kept satisfy them all, so that
\* the reduction is legal there and a reuse does not fail half way, and the bars
\* of the recorded pairs are those of the reduction (certificate/region.rs).
THEOREM AcceptedMeansLegal == AtomSpec => []AcceptedReindexes
<1>1. AtomInv => AcceptedReindexes
  BY AcceptedReuses DEF AcceptedReindexes
<1>2. QED
  BY <1>1, AtomStarts, AtomSteps, PTL DEF AtomSpec

\* The checker's decision to reuse is the producer's while the class spaces
\* are the same.
LEMMA SameDecision ==
  ASSUME AtomInv, SpacesAgree, NEW w \in Weightings
  PROVE  CheckerReuses(w) <=> ReusableAtom(w)
<1>1. CheckerRegion = region /\ checked.cert = cert /\ checked.spaces = spaces
  BY DEF AtomInv, CheckerRegion, SpacesAgree
<1>2. Accepts(region, w) => ReductionsCheck(w, cert)
  BY AcceptedReuses
<1>3. QED
  BY <1>1, <1>2 DEF CheckerReuses, ReusableAtom

\* A checker whose class spaces are the producer's takes its next step: it
\* counts as many guards, reuses or repairs when the producer does, and
\* finds the same repair (holos-tda-check/src/program/trace.rs).
THEOREM CheckerTakesEveryStep == AtomSpec => CheckerFollows
<1>1. AtomInv /\ [AtomNext]_atomVars =>
        [step.accepted /\ SpacesAgree => step'.accepted]_atomVars
  <2>. SUFFICES ASSUME AtomInv, AtomNext, step.accepted, SpacesAgree
                PROVE  step'.accepted
    OBVIOUS
  <2>1. SameGuardCount
    BY DEF AtomInv, SameGuardCount, CheckerRegion
  <2>2. ASSUME NEW w \in Weightings, Reuse(w)
        PROVE  step'.accepted
    <3>1. CheckerReuses(w)
      BY <2>2, SameDecision DEF Reuse
    <3>2. QED
      BY <2>1, <2>2, <3>1 DEF Reuse
  <2>3. ASSUME NEW w \in Weightings, NEW fails, RepairAtom(w, fails)
        PROVE  step'.accepted
    <3>1. ~CheckerReuses(w) \/ fails
      BY <2>3, SameDecision DEF RepairAtom
    <3>2. CheckerWork(w) = RepairCertificate(w, cert).work
      BY DEF CheckerWork, AtomInv
    <3>3. QED
      BY <2>1, <2>3, <3>1, <3>2 DEF RepairAtom
  <2>4. ASSUME NEW w \in Weightings, RecompileAtom(w)
        PROVE  step'.accepted
    BY <2>4 DEF RecompileAtom
  <2>5. QED
    BY <2>2, <2>3, <2>4 DEF AtomNext, UpdateAtom
<1>2. QED
  BY <1>1, AtomStarts, AtomSteps, PTL DEF AtomSpec, CheckerFollows

\* The kept region accepts the current weights: going back to them, or staying,
\* never needs a repair on account of the guards.  It is what ProgramAssumption
\* asks of compilations and repairs (program/update/atom.rs).
THEOREM KeptRegionAccepts == AtomSpec => []Accepts(region, weights)
<1>1. AtomInv => Accepts(region, weights)
  <2>1. ASSUME AtomInv
        PROVE  Accepts(region, weights)
    <3>1. Weighting(weights) /\ ReductionsCheck(weights, cert)
      BY <2>1, EveryWeighting DEF AtomInv
    <3>2. Accepts(CompileRegion(weights, cert), weights)
      BY <3>1, RegionAcceptsItself
    <3>3. QED
      BY <2>1, <3>2 DEF AtomInv
  <2>2. QED
    BY <2>1
<1>2. QED
  BY <1>1, AtomStarts, AtomSteps, PTL DEF AtomSpec
=============================================================================
