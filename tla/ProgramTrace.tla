---------------------------- MODULE ProgramTrace ----------------------------
(***************************************************************************)
(* ProgramTraceArtifact (program_trace): a producer advances a program     *)
(* through a sequence of graphs and records each step; a verifier replays  *)
(* the steps without reducing anything.  It evaluates the regions for a    *)
(* step recorded as reused, and takes the program from a checked           *)
(* checkpoint for the others.  The replay must find every recorded field.  *)
(***************************************************************************)
EXTENDS PersistenceProgram, Sequences

CONSTANT MaxSteps    \* longest trace built

VARIABLES
  initial,    \* ProgramArtifact of the initial graph
  producer,   \* the program build advances
  steps,      \* the recorded steps
  replayed,   \* the verifier's program
  position,   \* steps the verifier has accepted
  rejected    \* the verifier has returned an error

tvars == <<initial, producer, steps, replayed, position, rejected>>

\* The work counters of a weight update: the guards checked are those of
\* the regions of the atoms touched, the columns reduced those of the atoms
\* repaired.
UpdateWork(p, g) ==
  [touched |-> Touched(p, g),
   regions |-> [a \in Touched(p, g) |-> p.atoms[a].region],
   reduced |-> {a \in Touched(p, g) : ~Reusable(p.atoms[a], g.weight[a])}]

\* The producer's counters: recompile_work counts the columns of every
\* cyclic atom of the replacement.
RecordedWork(p, g) ==
  IF TopologyChanged(p, g)
  THEN [touched |-> AtomsOf[g.shape], regions |-> <<>>, reduced |-> AtomsOf[g.shape]]
  ELSE UpdateWork(p, g)

\* The verifier's: preview_update has no replacement, and counts none.
PreviewedWork(p, g) ==
  IF TopologyChanged(p, g)
  THEN [touched |-> AtomsOf[g.shape], regions |-> <<>>, reduced |-> {}]
  ELSE UpdateWork(p, g)

StepRecord(before, g, after) ==
  [graph      |-> g,
   mode       |-> UpdateMode(before, g),
   work       |-> RecordedWork(before, g),
   diagram    |-> after.result,
   checkpoint |-> IF UpdateMode(before, g) = "Reused" THEN {}
                  ELSE {Capture(after)}]

TraceInit ==
  \E g \in Graphs :
    /\ ~CompileFails(g)
    /\ producer = Compile(g)
    /\ initial = Capture(producer)
    /\ steps = <<>>
    /\ replayed = Loaded(initial, g)
    /\ position = 0
    /\ rejected = FALSE

\* One turn of build's loop; a failed update ends the build with no trace.
Record(g) ==
  /\ Len(steps) < MaxSteps
  /\ position = 0 /\ ~rejected
  /\ \E outcome \in Advance(producer, g) :
       /\ outcome.ok
       /\ producer' = outcome.program
       /\ steps' = Append(steps, StepRecord(producer, g, outcome.program))
  /\ UNCHANGED <<initial, replayed, position, rejected>>

Step == steps[position + 1]

\* advance_reused: the regions must hold and the class spaces survive.
ReuseAccepted ==
  /\ ~TopologyChanged(replayed, Step.graph)
  /\ \A a \in Touched(replayed, Step.graph) :
       Reusable(replayed.atoms[a], Step.graph.weight[a])

ReuseReplayed ==
  LET g == Step.graph
      atoms == [a \in DOMAIN replayed.atoms |->
                  Reweighted(replayed.atoms[a], g.weight[a])]
  IN  [graph |-> g, atoms |-> atoms, result |-> Compose(g, atoms)]

\* replay_checkpoint_step: the checkpoint verifies, and the update previewed
\* on the program before it can be carried out.
CheckpointAccepted ==
  /\ \A art \in Step.checkpoint : Verifies(art, Step.graph)
  /\ TopologyChanged(replayed, Step.graph) \/ Failing(replayed, Step.graph) = {}

CheckpointReplayed ==
  Loaded(CHOOSE art \in Step.checkpoint : TRUE, Step.graph)

\* check_replayed_step.
Agrees(after) ==
  /\ UpdateMode(replayed, Step.graph) = Step.mode
  /\ PreviewedWork(replayed, Step.graph) = Step.work
  /\ after.result = Step.diagram

Replay ==
  /\ position < Len(steps)
  /\ ~rejected
  /\ LET reused   == Step.mode = "Reused"
         accepted == IF reused THEN ReuseAccepted ELSE CheckpointAccepted
         after    == IF reused THEN ReuseReplayed ELSE CheckpointReplayed
     IN  IF accepted /\ Agrees(after)
         THEN replayed' = after /\ position' = position + 1 /\ UNCHANGED rejected
         ELSE rejected' = TRUE /\ UNCHANGED <<replayed, position>>
  /\ UNCHANGED <<initial, producer, steps>>

TraceDone ==
  /\ rejected \/ (position = Len(steps) /\ position > 0)
  /\ UNCHANGED tvars

TraceNext == Replay \/ TraceDone \/ \E g \in Graphs : Record(g)

TraceSpec == TraceInit /\ [][TraceNext]_tvars

-----------------------------------------------------------------------------
\* A recompilation into cyclic atoms, whose columns the producer counts and
\* the verifier's preview does not (update.rs:365, compared at replay.rs:83).
Miscounted(step) == step.mode = "Recompiled" /\ AtomsOf[step.graph.shape] # {}

\* Of the traces a producer builds, the verifier accepts those with no
\* recompilation into cyclic atoms, and returns its error at the first of
\* these otherwise; at every step it accepts, its regions, compiled again
\* from checkpoints, are those the producer kept through its reuses, so that
\* a verification that ends does so with the producer's program.
ReplayAgrees ==
  /\ \A k \in 1 .. position : ~Miscounted(steps[k])
  /\ rejected => position < Len(steps) /\ Miscounted(Step)
  /\ steps # <<>> /\ position = Len(steps) => replayed = producer
=============================================================================
