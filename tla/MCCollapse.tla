------------------------------ MODULE MCCollapse ------------------------------
(****************************************************************************)
(* The schedules of the edge collapse, each on every graph of four points   *)
(* and on graphs around one of five, and the verifier on what they return;  *)
(* or, in a behaviour of its own, a stream of index versions.               *)
(****************************************************************************)
EXTENDS CollapseVerifier, IndexStream

allVars == <<collapseVars, indexVars>>

-----------------------------------------------------------------------------
\* Every graph on the points 0 .. 3.
Small ==
  UNION {[subset -> Level] : subset \in SUBSET {p \in Pairs : p[2] <= 3}}

\* A graph whose collapse takes five passes: removals uncover removals of
\* earlier edges.
Chain ==
  <<0,1>> :> 1 @@ <<1,2>> :> 1 @@ <<0,3>> :> 2 @@ <<1,3>> :> 2 @@ <<2,3>> :> 2 @@
  <<0,4>> :> 1 @@ <<2,4>> :> 2 @@ <<3,4>> :> 1

\* The graphs that differ from it at most in the given pairs.
AroundChain(varied) ==
  {[p \in (DOMAIN Chain \ varied) \cup DOMAIN change |->
      IF p \in varied THEN change[p] ELSE Chain[p]] :
     change \in UNION {[subset -> Level] : subset \in SUBSET varied}}

MCInputs == Small \cup AroundChain({<<0,1>>, <<1,3>>, <<2,4>>, <<3,4>>, <<1,4>>})

\* One input on which the serial schedule and a full retest part: the edge
\* {1, 4} goes in the second pass, and enough further neighbours make the
\* adjacency lists of 1 and 4 too long to mark.
RetestInputs ==
  LET core == <<1,2>> :> 1 @@ <<0,3>> :> 1 @@ <<1,3>> :> 1 @@ <<0,4>> :> 1 @@
              <<1,4>> :> 2 @@ <<2,4>> :> 2 @@ <<3,4>> :> 2
  IN  {core @@ [p \in {q \in {1, 4} \X (5 .. NumVertices - 1) : (q[1] = 1) <=> (q[2] % 2 = 0)} |->
                  1]}

\* No limit, one that stops a run while it plans, one while it retires.
MCWorkLimits == {NoLimit, 7, 12}

-----------------------------------------------------------------------------
\* A graph on points 0 .. n from <<u, v, value>> triplets.
GraphOf(n, triplets) ==
  [points |-> 0 .. n,
   dist   |-> [e \in {{t[1], t[2]} : t \in triplets} |->
                 (CHOOSE t \in triplets : {t[1], t[2]} = e)[3]]]

With(g, u, v, value) == [g EXCEPT !.dist = ({u, v} :> value) @@ @]

Params(policy, leaf, width, most) ==
  [policy |-> policy, leafVertices |-> leaf, width |-> width, limit |-> most]

Stream(params, g, asked) == [params |-> params, graph |-> g, calls |-> asked]

Set(u, v, value)      == [op |-> "set", edge |-> {u, v}, value |-> value]
Activate(u, v, value) == [op |-> "activate", edge |-> {u, v}, value |-> value]
Deactivate(u, v)      == [op |-> "deactivate", edge |-> {u, v}, value |-> 0]
Patch(edits)          == [op |-> "patches", patches |-> <<edits>>]
Batch(patches)        == [op |-> "patches", patches |-> patches]
Reach(g)              == [op |-> "graph", graph |-> g]

\* Three triangles on the edge of 0 and 1; an edge of the last is inactive.
Book == GraphOf(4, {<<0, 1, 1>>, <<0, 2, 1>>, <<1, 2, 2>>, <<0, 3, 1>>, <<1, 3, 1>>,
                    <<0, 4, 2>>, <<1, 4, 5>>})

\* Two parts, one of them a square.
Parts == GraphOf(5, {<<0, 1, 1>>, <<1, 2, 0>>, <<2, 3, 2>>, <<0, 3, 1>>, <<4, 5, 2>>})

\* Two points that see 0, 1 and 2, of which 1 and 2 are not joined.
Cone == GraphOf(4, {<<0, 1, 0>>, <<0, 2, 0>>, <<0, 3, 5>>, <<1, 3, 1>>, <<2, 3, 2>>,
                    <<0, 4, 1>>, <<1, 4, 2>>, <<2, 4, 1>>})

\* A tree that holds one interface twice.
Twin == GraphOf(5, {<<0, 2, 1>>, <<0, 3, 1>>, <<1, 2, 1>>, <<1, 5, 2>>, <<2, 4, 1>>,
                    <<3, 4, 1>>, <<4, 5, 1>>})

\* There and back, then on, or a batch that fails part way.
BookCalls ==
  << {Patch(<<Set(1, 2, 1)>>)},
     {Patch(<<Set(1, 2, 2)>>), Batch(<< <<Set(0, 3, 2)>>, <<Activate(1, 4, 5)>> >>)},
     {Patch(<<Set(0, 3, 2)>>), Patch(<<Set(0, 1, 0), Activate(1, 4, 2)>>)} >>

\* The separator enters at zero and leaves it again; edges cross the threshold.
SpineCalls ==
  << {Patch(<<Set(1, 2, 1), Activate(1, 4, 2)>>)},
     {Patch(<<Set(0, 1, 0)>>), Batch(<< <<Set(0, 1, 0)>>, <<Deactivate(1, 4)>> >>)},
     {Reach([Book EXCEPT !.dist[{1, 4}] = 7])} >>

\* A bridge, active or not, joins the parts.
PartsCalls ==
  << {Patch(<<Set(2, 3, 1)>>), Patch(<<>>)},
     {Reach(With(Parts, 3, 4, 2)), Reach(With(Parts, 3, 4, 5))},
     {Patch(<<Deactivate(0, 1)>>), Patch(<<Set(0, 1, 2), Set(0, 1, 3)>>)} >>

\* The separator is a cone, then not, then again.
ConeCalls ==
  << {Patch(<<Set(2, 3, 1)>>)}, {Patch(<<Set(0, 1, 1)>>)}, {Patch(<<Set(0, 1, 0)>>)} >>

TwinCalls == << {Patch(<<Set(4, 5, 2)>>)}, {Patch(<<Set(0, 3, 2)>>)} >>

\* A value changes above the threshold, then others below it.
StillCalls ==
  << {Patch(<<Set(1, 4, 7)>>)},
     {Patch(<<Set(1, 2, 1)>>), Patch(<<Set(1, 2, 1), Set(1, 4, 6)>>)},
     {Patch(<<Set(1, 2, 2)>>)} >>

StillStreams == {Stream(Params("relative", 3, 2, 100), Book, StillCalls)}

\* In the fifth the search for separators ends inside the first part.
MCStreams ==
  {Stream(Params("relative", 3, 2, 100), Book, BookCalls),
   Stream(Params("materialize", 3, 2, 100), Book, SubSeq(BookCalls, 1, 2)),
   Stream(Params("compose", 3, 2, 100), Book, SpineCalls),
   Stream(Params("compose", 2, 2, 100), Parts, PartsCalls),
   Stream(Params("relative", 2, 2, 5), Parts, PartsCalls),
   Stream(Params("relative", 2, 2, 100), Parts, PartsCalls),
   Stream(Params("compose", 4, 3, 100), Cone, ConeCalls),
   Stream(Params("relative", 2, 4, 100), Twin, TwinCalls)} \cup StillStreams

-----------------------------------------------------------------------------
IndexIdle ==
  /\ index = NoState /\ calls = <<>> /\ log = <<>> /\ verifier = NoState /\ brought = 0
  /\ outcome = [what |-> "idle", at |-> 0, due |-> FALSE, done |-> FALSE]

AllInit ==
  \/ CollapseInit /\ IndexIdle
  \/ /\ schedule \in Schedules \cap {"index"}
     /\ edges = <<>> /\ live = {} /\ steps = <<>> /\ phase = "idle"
     /\ OrderedIdle /\ RoundsIdle /\ AdaptiveIdle /\ PassesIdle
     /\ IndexInit

AllNext ==
  \/ CollapseNext /\ UNCHANGED indexVars
  \/ schedule = "index" /\ IndexNext /\ UNCHANGED collapseVars

AllSpec == AllInit /\ [][AllNext]_allVars

-----------------------------------------------------------------------------
(* A pass that tests the dirty edges only removes what a full retest would  *)
(* (see SerialCollapse).                                                    *)
MatchesFullRetest == Serial!MatchesFullRetest
=============================================================================
