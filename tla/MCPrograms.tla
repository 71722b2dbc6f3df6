----------------------------- MODULE MCPrograms -----------------------------
(***************************************************************************)
(* A persistence program at three levels, one per behaviour: the engine    *)
(* that computes a diagram or compiles a graph into atoms, the certificate *)
(* of one atom through a sequence of weights, and the three owners of a    *)
(* program over atoms that are values.                                     *)
(*                                                                         *)
(* The owners have two cyclic atoms of three weightings each, one of them, *)
(* or none.  Reduction c1 holds for x and y, c2 and c3 for y and z.  A     *)
(* repair may reach another reduction than a compilation of the same       *)
(* weights, and c3 is above the certificate limits.                        *)
(***************************************************************************)
EXTENDS ProgramSession, DiagramState, ProgramTrace, CertifiedAtom, ProgramComposition

CONSTANTS
  Parties,    \* what the behaviours may be about
  MaxTears    \* bound: calls that tear a program before it is whole again

VARIABLES
  owner,    \* what this behaviour is about
  tears     \* calls that tore the session's program or its checkpoint

-----------------------------------------------------------------------------
\* The owners of a program.
MCAtomsOf == [s \in {"two", "one", "none"} |->
                CASE s = "two" -> {1, 2} [] s = "one" -> {2} [] s = "none" -> {}]
MCAccept == [c1 |-> {"x", "y"}, c2 |-> {"y", "z"}, c3 |-> {"y", "z"}]
MCFresh == [x |-> "c1", y |-> "c1", z |-> "c2"]
MCRepair == [c1 |-> [x |-> "c1", y |-> "c3", z |-> "c3"],
             c2 |-> [x |-> "c1", y |-> "c2", z |-> "c2"],
             c3 |-> [x |-> "c1", y |-> "c2", z |-> "c3"]]
MCSplits == [x |-> {"y"}, y |-> {}, z |-> {"y"}]

\* Batches that start with a reusable, a repairable or a failing update.
Both(u, v) == [shape |-> "two", weight |-> [a \in {1, 2} |-> IF a = 1 THEN u ELSE v]]
MCBatches == {Both("x", "y"), Both("y", "z")}
               \X {Both("z", "z"), Both("x", "x"),
                   [shape |-> "one", weight |-> [a \in {2} |-> "z"]]}

-----------------------------------------------------------------------------
(* The atom: weights of two 4-cycles that share an edge, or of a square     *)
(* with one diagonal.                                                       *)

\* The weightings of a graph: fixed values, and edges free to take some.
Free(fixed, free, values) ==
  {[e \in DOMAIN fixed \cup free |-> IF e \in free THEN f[e] ELSE fixed[e]]
     : f \in [free -> values]}

\* Two 4-cycles 1-2-3-4 and 1-2-5-6; two long edges vary.
Theta ==
  Free([e \in {<<1, 2>>, <<2, 3>>, <<1, 4>>, <<2, 5>>, <<1, 6>>} |-> 1],
       {<<3, 4>>, <<5, 6>>}, {2, 3})

\* A square with a diagonal; the diagonal may cross the threshold.
Square ==
  Free([e \in {<<1, 2>>} |-> 1],
       {<<1, 3>>, <<2, 4>>, <<3, 4>>, <<2, 3>>}, {1, 2, 4})

\* Updates of each graph, and recompilations from one to another.
Weights == Square \cup Theta

-----------------------------------------------------------------------------
(* The engine: every graph of four points with edges of two lengths, with   *)
(* all shortcuts and with none; larger graphs for the second dimension, for *)
(* several blocks, and for the separators of a program.                     *)

Graph(points, dist) == [points |-> points, dist |-> dist]

\* Every graph on the points whose edges take the given values; 9 is no edge.
GraphsOn(points, values) ==
  {Graph(points, Restrict(f, {e \in DOMAIN f : f[e] # 9}))
     : f \in [EdgesOf(points) -> values]}

\* Fixed edges, and some that vary.
Varied(points, fixed, free, values) ==
  {Graph(points, [e \in DOMAIN fixed \cup {f \in free : v[f] # 9}
                    |-> IF e \in free THEN v[e] ELSE fixed[e]])
     : v \in [free -> values]}

Edge(pairs, value) == [e \in {{p[1], p[2]} : p \in pairs} |-> value]

Settings(maxDim, apparent, emergent, clearing, rows) ==
  [maxDim |-> maxDim, apparent |-> apparent, emergent |-> emergent,
   clearing |-> clearing, rows |-> rows, classes |-> FALSE]

Diagram(g, t, dense, settings, split) ==
  [kind |-> "diagram", input |-> g, threshold |-> t, dense |-> dense,
   params |-> settings, split |-> split]

Program(g, t) ==
  [kind |-> "program", input |-> g, threshold |-> t, dense |-> FALSE,
   params |-> Settings(1, TRUE, TRUE, TRUE, FALSE), split |-> "off"]

AllOn(maxDim)   == Settings(maxDim, TRUE, TRUE, TRUE, FALSE)
WithRows(maxDim) == Settings(maxDim, TRUE, TRUE, TRUE, TRUE)
AllOff(maxDim)  == Settings(maxDim, FALSE, FALSE, FALSE, FALSE)

Octahedron ==
  Varied(0 .. 5, Edge({<<0,2>>, <<0,3>>, <<0,4>>, <<1,2>>, <<1,3>>, <<1,4>>,
                       <<2,4>>, <<3,4>>, <<0,5>>, <<1,5>>}, 1),
         {{2, 5}, {3, 5}, {0, 1}}, {1, 2})

\* Two triangles and a square at articulation points, with a bridge.
Chained ==
  Varied(0 .. 6, Edge({<<0,1>>, <<0,2>>, <<2,3>>, <<3,4>>, <<4,5>>, <<3,6>>}, 1),
         {{1, 2}, {5, 6}, {3, 5}}, {1, 2, 9})

\* Complete graphs, which a dense input is.
Dense == GraphsOn(0 .. 3, {1, 2})

\* Two cycles glued along an edge, or more of them along two.
Glued ==
  Varied(0 .. 4, Edge({<<0,2>>, <<1,3>>, <<2,4>>, <<3,4>>}, 1),
         {{0, 1}, {2, 3}, {1, 2}}, {0, 2, 9})

\* Two or three points over a triangle of value zero or one.
Coned ==
  {Graph(0 .. 5, g.dist @@ Edge({<<2,5>>}, 2) @@ Edge({<<0,1>>, <<0,2>>}, 0)) : g \in
     Varied(0 .. 5, Edge({<<0,3>>, <<1,3>>, <<0,4>>, <<1,5>>, <<2,4>>}, 1),
            {{1, 2}, {2, 3}, {1, 4}}, {0, 2, 9})}

DiagramRequests ==
       {Diagram(g, Infinite, FALSE, WithRows(2), "off") : g \in GraphsOn(0 .. 3, {1, 2, 9})}
  \cup {Diagram(g, Infinite, FALSE, AllOff(2), "off") : g \in Dense}
  \cup {Diagram(g, 1, FALSE, AllOn(2), "off") : g \in GraphsOn(0 .. 3, {1, 2})}
  \cup {Diagram(g, Infinite, TRUE, Settings(3, TRUE, FALSE, FALSE, FALSE), "off") : g \in Dense}
  \cup {Diagram(g, Infinite, FALSE, Settings(1, FALSE, TRUE, TRUE, FALSE), "force") :
          g \in GraphsOn(0 .. 3, {0, 2})}
  \cup {Diagram(g, Infinite, FALSE, s, "off") :
          g \in Octahedron, s \in {WithRows(2), Settings(2, TRUE, TRUE, FALSE, FALSE),
                                   Settings(2, FALSE, TRUE, TRUE, FALSE)}}
  \cup {Diagram(g, Infinite, FALSE, AllOn(2), split) :
          g \in Chained, split \in {"force", "auto"}}

ProgramRequests ==
  {Program(g, Infinite) : g \in Glued \cup Coned}

MCRequests == DiagramRequests \cup ProgramRequests

-----------------------------------------------------------------------------
mcvars == <<owner, tears, vars, dvars, tvars, atomVars, programVars>>

Anywhere == CHOOSE g \in Graphs : ~CompileFails(g)
Nowhere == Graph({}, <<>>)

SessionIdle ==
  /\ program = Compile(Anywhere)
  /\ artifact = Capture(program)
  /\ saved = [program |-> program, torn |-> FALSE]
  /\ torn = FALSE
  /\ last = "other"

DiagramsIdle ==
  /\ lazy = Compile(Anywhere)
  /\ graph = Anywhere
  /\ diagram = DiagramOf(Anywhere)
  /\ dirty = FALSE

TraceIdle ==
  /\ producer = Compile(Anywhere)
  /\ initial = Capture(producer)
  /\ steps = <<>>
  /\ replayed = producer
  /\ position = 0
  /\ rejected = FALSE

AtomIdle == CompiledAtom(<<>>)

EngineIdle ==
  Requested([Program(Nowhere, 0) EXCEPT !.kind = "none"]) /\ CompositionInit

MCInit ==
  /\ owner \in Parties
  /\ tears = 0
  /\ \/ /\ owner = "session" /\ Init
        /\ DiagramsIdle /\ TraceIdle /\ AtomIdle /\ EngineIdle
     \/ /\ owner = "diagrams" /\ DiagramInit
        /\ SessionIdle /\ TraceIdle /\ AtomIdle /\ EngineIdle
     \/ /\ owner = "trace" /\ TraceInit
        /\ SessionIdle /\ DiagramsIdle /\ AtomIdle /\ EngineIdle
     \/ /\ owner = "atom" /\ AtomInit
        /\ SessionIdle /\ DiagramsIdle /\ TraceIdle /\ EngineIdle
     \/ /\ owner = "engine" /\ RipsInit
        /\ SessionIdle /\ DiagramsIdle /\ TraceIdle /\ AtomIdle

\* A call that returns an error and changes the program is one tear; whole
\* programs, in use and saved, start the count anew.
CountTears ==
  tears' = IF ~torn' /\ ~saved'.torn THEN 0
           ELSE IF last' = "failed" /\ program' # program THEN tears + 1
           ELSE tears

MCNext ==
  \/ /\ owner = "session" /\ Next
     /\ CountTears /\ tears' <= MaxTears
     /\ UNCHANGED <<owner, dvars, tvars, atomVars, programVars>>
  \/ /\ owner = "diagrams" /\ DiagramNext
     /\ UNCHANGED <<owner, tears, vars, tvars, atomVars, programVars>>
  \/ /\ owner = "trace" /\ TraceNext
     /\ UNCHANGED <<owner, tears, vars, dvars, atomVars, programVars>>
  \/ /\ owner = "atom" /\ AtomNext
     /\ UNCHANGED <<owner, tears, vars, dvars, tvars, programVars>>
  \/ /\ owner = "engine" /\ RipsNext
     /\ UNCHANGED <<owner, tears, vars, dvars, tvars, atomVars>>

MCSpec == MCInit /\ [][MCNext]_mcvars
=============================================================================
