----------------------------- MODULE IndexStream -----------------------------
(***************************************************************************)
(* A stream of index versions and the checker that follows it              *)
(* (holos-tda/src/index_stream.rs and index_proof.rs, with the transitions *)
(* of index/transition.rs).  Every step of the stream emits a proof; the   *)
(* proofs, and checkpoints of the versions, reach the checker lost,        *)
(* repeated or in another order.                                           *)
(*                                                                         *)
(* A patch is a sequence of edits [op, edge, value]; a call is             *)
(* [op, patches] or, with the graph to reach, [op, graph].                 *)
(***************************************************************************)
EXTENDS IndexChecker

CONSTANT Streams      \* [params, graph, calls]: where a stream starts, and a
                      \* sequence of sets of calls, one of each to be made

VARIABLES
  index,      \* IndexStream::index
  calls,      \* the calls to come
  log,        \* history: the versions [graph, root] and the proof of each
  verifier,   \* IndexProofState, once there is one
  brought,    \* history: the version the checker was brought to last, or 0
  outcome     \* history: the last call or record, whether it should and did
              \* succeed

indexVars == <<index, calls, log, verifier, brought, outcome>>

NoState == <<>>

-----------------------------------------------------------------------------
(* Proofs *)

\* IndexSnapshotProof::from_index; collect_nodes visits every node once.
Snapshot(version) ==
  [kind |-> "snapshot", graph |-> version.graph, root |-> version.root,
   nodes |-> TreeNodes(version.root), diagram |-> version.root.state.diagram]

\* IndexDeltaProof::between: the changed values and the nodes the old tree
\* does not have.
Delta(old, new) ==
  LET changed == ChangedEdges(old.graph, new.graph)
      edge(p) == CHOOSE e \in changed : EdgePosition(old.graph, e) = p
  IN  [kind    |-> "delta",
       points  |-> old.graph.points,
       edges   |-> Cardinality(DOMAIN old.graph.dist),
       old     |-> old.root,
       root    |-> new.root,
       changes |-> [p \in {EdgePosition(old.graph, e) : e \in changed} |->
                      new.graph.dist[edge(p)]],
       nodes   |-> TreeNodes(new.root) \ TreeNodes(old.root),
       diagram |-> new.root.state.diagram]

SameEnvelope(g, h) == g.points = h.points /\ DOMAIN g.dist = DOMAIN h.dist

\* commit: the entry of the log for the step from one version to the next.
Committed(old, new) ==
  [graph |-> new.graph, root |-> new.root,
   proof |-> IF SameEnvelope(old.graph, new.graph) THEN Delta(old, new) ELSE Snapshot(new)]

-----------------------------------------------------------------------------
(* Transitions *)

\* edit_value: f64::MAX, above every threshold.
Deactivated == 99

\* edit_replacements
Editable(g, edits) ==
  \A i \in DOMAIN edits :
    /\ edits[i].edge \in DOMAIN g.dist
    /\ edits[i].op = "activate" => edits[i].value <= Threshold
    /\ \A j \in DOMAIN edits \ {i} : edits[j].edge # edits[i].edge

WithEdits(g, edits) ==
  LET value(edit) == IF edit.op = "deactivate" THEN Deactivated ELSE edit.value
      edited(e)   == {i \in DOMAIN edits : edits[i].edge = e}
  IN  [g EXCEPT !.dist = [e \in DOMAIN @ |->
         IF edited(e) = {} THEN @[e] ELSE value(edits[CHOOSE i \in edited(e) : TRUE])]]

\* transition_edits_with: the next version, or no root.
Patched(version, edits) ==
  IF Editable(version.graph, edits) THEN Transition(version, WithEdits(version.graph, edits))
  ELSE [version EXCEPT !.root = Refused]

\* The steps of a call: the version reached, the entries of the log, and
\* whether none failed.
NoSteps(version) == [index |-> version, entries |-> <<>>, done |-> TRUE]

Advanced(steps, new) ==
  IF new.root = Refused THEN [steps EXCEPT !.done = FALSE]
  ELSE [index   |-> new,
        entries |-> Append(steps.entries, Committed(steps.index, new)),
        done    |-> TRUE]

\* apply_patches, up to the first patch that fails.
AfterPatches(version, patches) ==
  LET next(steps, edits) == IF steps.done THEN Advanced(steps, Patched(steps.index, edits))
                            ELSE steps
  IN  FoldLeft(next, NoSteps(version), patches)

\* An edit stays inside the envelope, whose edges no edit changes.
CallIsValid(call) ==
  call.op = "patches" => \A i \in DOMAIN call.patches : Editable(index.graph, call.patches[i])

-----------------------------------------------------------------------------
(* The stream *)

IndexInit ==
  \E stream \in Streams :
    /\ index = Compile(stream.params, stream.graph)
    /\ calls = stream.calls
    /\ log = <<[graph |-> index.graph, root |-> index.root, proof |-> Snapshot(index)]>>
    /\ verifier = NoState
    /\ brought = 0
    /\ outcome = [what |-> "none", at |-> 0, due |-> TRUE, done |-> TRUE]

\* Mutant of Commit: the steps are taken on the stream itself.
CommitInPlace(steps) ==
  /\ index' = steps.index
  /\ log' = IF steps.done THEN log \o steps.entries ELSE log

\* A call that fails, a batch part way too, leaves the stream as it was.
Commit(steps) ==
  IF steps.done THEN index' = steps.index /\ log' = log \o steps.entries
  ELSE UNCHANGED <<index, log>>

Made(call, steps) ==
  /\ Commit(steps)
  /\ calls' = Tail(calls)
  /\ outcome' = [what |-> "call", at |-> 0, due |-> CallIsValid(call), done |-> steps.done]
  /\ UNCHANGED <<verifier, brought>>

\* apply_patch, apply_patches
ApplyPatches(call) ==
  /\ call.op = "patches"
  /\ Made(call, AfterPatches(index, call.patches))

\* apply_graph
ApplyGraph(call) ==
  /\ call.op = "graph"
  /\ Made(call, Advanced(NoSteps(index), Transition(index, call.graph)))

-----------------------------------------------------------------------------
(* The checker *)

Brought(what, i, due, accepted, state) ==
  /\ outcome' = [what |-> what, at |-> i, due |-> due, done |-> accepted]
  /\ IF accepted THEN verifier' = state /\ brought' = i
     ELSE UNCHANGED <<verifier, brought>>
  /\ UNCHANGED <<index, calls, log>>

\* IndexProofState::verify_snapshot, of a checkpoint of any version or of the
\* proof of a step that changed the envelope.
Restart(i) ==
  LET record == Snapshot(log[i]) IN
  Brought("snapshot", i, TRUE, SnapshotAccepted(record), SnapshotState(record))

\* apply_delta; a delta is in place after the version before it.
Follow(i) ==
  LET delta == log[i].proof IN
  /\ delta.kind = "delta"
  /\ verifier # NoState
  /\ Brought("delta", i, brought = i - 1,
             DeltaAccepted(verifier, delta), DeltaState(verifier, delta))

IndexNext ==
  \/ calls # <<>> /\ \E call \in Head(calls) : ApplyPatches(call) \/ ApplyGraph(call)
  \/ \E i \in DOMAIN log : Restart(i) \/ Follow(i)

IndexSpec == IndexInit /\ [][IndexNext]_indexVars

-----------------------------------------------------------------------------
\* The step to version i changes edges below some node, all of which were
\* inactive and stay so.
ChangesInactive(i) ==
  LET old == log[i - 1].graph
      new == log[i].graph
      changed(V) == {e \in ChangedEdges(old, new) : e \subseteq V}
  IN  \E node \in TreeNodes(log[i].root) :
        /\ changed(node.vertices) # {}
        /\ \A e \in changed(node.vertices) : old.dist[e] > Threshold /\ new.dist[e] > Threshold

(* Every interface of the current tree has the exact diagram of its part of *)
(* the graph, whatever was cancelled, glued, composed, repaired or shared   *)
(* since the tree was compiled, and a call fails only when an edit is not   *)
(* in the envelope (transition.rs:254-383, update.rs:31-61).                *)
IndexExact ==
  outcome.what \in {"none", "call"} =>
    /\ outcome.done = outcome.due
    /\ \A node \in TreeNodes(index.root) :
         node.state.diagram = OracleBars(Local(Active(index.graph), node.vertices), MaxDim)

(* The checker can follow the stream: it accepts the checkpoint of every    *)
(* version, and after a version it accepts the delta of the next step, with *)
(* whatever records it was given in between and whatever calls failed       *)
(* (index_proof.rs:3-5).  Left out are the records the checker does refuse: *)
(* a snapshot of a tree that holds one interface twice, and a delta after   *)
(* which the changed edges of a part stay inactive (see RecordsAccepted).   *)
VerifierFollows ==
  outcome.due =>
    \/ outcome.done
    \/ outcome.what = "snapshot" /\ Repeats(log[outcome.at].root)
    \/ outcome.what = "delta" /\ ChangesInactive(outcome.at)
    \/ outcome.what = "call"

(* What the checker holds is a version of the stream: its root, its active  *)
(* graph and its exact diagram, after any records in any order              *)
(* (state.rs:92-118).                                                       *)
VerifierSound ==
  verifier # NoState =>
    /\ verifier.root = log[brought].root
    /\ Active(verifier.graph) = Active(log[brought].graph)
    /\ verifier.diagram = OracleBars(Active(log[brought].graph), MaxDim)

(* A change inside the listed edges emits a delta, and the checker advances *)
(* its root by it (index_stream.rs:84-85, index_proof.rs:3-5).  Violated: a *)
(* digest binds the active edges only, so that the delta of a value that    *)
(* changes above the threshold has no new node, and is refused.             *)
RecordsAccepted ==
  outcome.what = "delta" /\ outcome.due => outcome.done
=============================================================================
