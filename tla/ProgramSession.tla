--------------------------- MODULE ProgramSession ---------------------------
(***************************************************************************)
(* One owner of a persistence program and of its captured artifact: the    *)
(* SparseProgram of the Python bindings with the checkpoint and restore of *)
(* the Rust interface.  A call is atomic for its owner (&mut self), but a  *)
(* failed call returns with the program as the failure left it.            *)
(***************************************************************************)
EXTENDS PersistenceProgram

CONSTANT Batches    \* the batches handed to update_many, pairs of graphs

ASSUME BatchesAssumption == Batches \subseteq Graphs \X Graphs

VARIABLES
  program,   \* the PersistenceProgram
  artifact,  \* ProgramArtifact captured after the last successful update
  saved,     \* ProgramCheckpoint: a program, with its torn flag
  torn,      \* history: a call that returned an error changed the program
  last       \* how the last call ended

vars == <<program, artifact, saved, torn, last>>

\* An Ok that advanced the program, the Err of an update or of a capture
\* after one, the Err of a call that works on a copy, or any other return.
Endings == {"advanced", "failed", "refused", "other"}

TypeOK ==
  /\ program \in Programs
  /\ artifact \in Artifacts
  /\ saved \in [program : Programs, torn : BOOLEAN]
  /\ torn \in BOOLEAN
  /\ last \in Endings

\* compile_sparse_program.
Init ==
  \E g \in Graphs :
    /\ ~CompileFails(g)
    /\ program = Compile(g)
    /\ artifact = Capture(program)
    /\ saved = [program |-> program, torn |-> FALSE]
    /\ torn = FALSE
    /\ last = "other"

\* A call that returned an error and changed the program leaves it torn; a
\* program compiled anew is whole whatever was there before.
TornAfter(p, g, outcome) ==
  IF outcome.ok THEN torn /\ ~TopologyChanged(p, g)
                ELSE torn \/ outcome.program # p

\* The owner captures the artifact when the program has advanced, and the
\* capture can go over its limits (check_structure): the call then returns
\* an error with the program moved on.
Captured(outcomes) == outcomes \cup {Err(o.program) : o \in outcomes}

\* Mutant of Update: the artifact is captured before the update.
UpdateCapturedFirst(g) ==
  \E outcome \in Advance(program, g) :
    /\ program' = outcome.program
    /\ artifact' = Capture(program)
    /\ torn' = TornAfter(program, g, outcome)
    /\ last' = IF outcome.ok THEN "advanced" ELSE "failed"
    /\ UNCHANGED saved

\* update: the artifact is replaced only when update and capture succeed.
Update(g) ==
  \E outcome \in Captured(Advance(program, g)) :
    /\ program' = outcome.program
    /\ artifact' = IF outcome.ok THEN Capture(outcome.program) ELSE artifact
    /\ torn' = TornAfter(program, g, outcome)
    /\ last' = IF outcome.ok THEN "advanced" ELSE "failed"
    /\ UNCHANGED saved

\* update_many, with batches of two graphs.
UpdateMany(g1, g2) ==
  \E outcome \in Captured(AdvanceBatch(program, g1, g2)) :
    /\ program' = outcome.program
    /\ artifact' = IF outcome.ok THEN Capture(outcome.program) ELSE artifact
    /\ torn' = IF outcome.ok
               THEN torn /\ ~TopologyChanged(program, g1) /\ g2.shape = g1.shape
               ELSE torn \/ outcome.program # program
    /\ last' = IF outcome.ok THEN "advanced"
               ELSE IF outcome \in AdvanceBatch(program, g1, g2)
                    THEN "refused" ELSE "failed"
    /\ UNCHANGED saved

\* fork: an alternative advances a copy; the caller goes on with the
\* branch, or with this program when the branch or its capture fails.
Fork(g) ==
  \E outcome \in Captured(Advance(program, g)) :
    /\ last' = IF outcome.ok THEN "advanced" ELSE "refused"
    /\ UNCHANGED saved
    /\ IF outcome.ok
       THEN /\ program' = outcome.program
            /\ artifact' = Capture(outcome.program)
            /\ torn' = TornAfter(program, g, outcome)
       ELSE UNCHANGED <<program, artifact, torn>>

Checkpoint ==
  /\ saved' = [program |-> program, torn |-> torn]
  /\ last' = "other"
  /\ UNCHANGED <<program, artifact, torn>>

\* restore, on a program whose owner captures the artifact again.
Restore ==
  /\ program' = saved.program
  /\ artifact' = Capture(saved.program)
  /\ torn' = saved.torn
  /\ last' = "other"
  /\ UNCHANGED saved

\* load_sparse_program: another process verifies the artifact and goes on.
Load(g) ==
  LET accepted == Verifies(artifact, g)
  IN  /\ last' = IF accepted THEN "other" ELSE "refused"
      /\ UNCHANGED <<artifact, saved>>
      /\ IF accepted
         THEN program' = Loaded(artifact, g) /\ torn' = FALSE
         ELSE UNCHANGED <<program, torn>>

Next ==
  \/ \E g \in Graphs : Update(g) \/ Fork(g) \/ Load(g)
  \/ \E batch \in Batches : UpdateMany(batch[1], batch[2])
  \/ Checkpoint
  \/ Restore

Spec == Init /\ [][Next]_vars

-----------------------------------------------------------------------------
\* Until a failed update tears it, the program is sound after any sequence
\* of updates, batches, forks, restores and loads: each atom is bound to
\* the weights of the current graph, inside the region of its reduction,
\* and the result was composed from all of them (program/update.rs).
SoundUntilTorn == ~torn => Sound(program)

\* The captured artifact of a whole program verifies against the graph it
\* was captured at, and the program loaded from it continues with the same
\* reductions and the same result: what HOLOSPRG is for.
ArtifactLoads ==
  ~torn => /\ Verifies(artifact, program.graph)
           /\ Loaded(artifact, program.graph) = program

\* A batch, a fork or a load that fails part way leaves the program and its
\* artifact as they were, torn or not (update.rs:49 "atomically").  A batch
\* that has advanced and whose artifact cannot be captured is no such call:
\* its owner's program has moved on when the error is returned.
FailedCallKeepsProgram ==
  [][last' = "refused" => UNCHANGED <<program, artifact>>]_vars

\* "Exact current result" (update.rs:22): when an update has returned Ok,
\* the result is that of the graph it was given.
ResultIsCurrent ==
  last = "advanced" => program.result = DiagramOf(program.graph)
=============================================================================
