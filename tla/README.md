# TLA+ models of holos

`holos` computes persistent homology of finite metric spaces and keeps what it
computes as checkable artifacts.  Two kinds of correctness meet in it.  Some
parts depend on the *order* of steps: the reducer's threads that share one pivot
table, the edge-collapse schedules that test edges on a frozen graph, the durable
store that folds shards across crashes, the reader thread behind the parsers, the
search that may stop at any limit, and the programs that are moved from weights
to weights by calls that may fail half way.  Others are algorithms with shortcuts
whose answer must be that of a textbook definition: the reduction engine, the
factorization of a graph, the certificate of an atom with its region, the
canonical classes.  The first kind is modelled step by step, the second kind is
checked against a reference definition over bounded inputs.

Paths below are relative to `crates/holos-tda/src/` in the repository.

## 1. Inventory

| Component | State it keeps | Operations | Interacts with | What is hard | Correct when |
|---|---|---|---|---|---|
| `parallel.rs` | concurrent table pivot -> (column, V-column); `WorkQueue` (`next`, `pending`, `requeued`, `has_requeued`); each worker's working column | `take`, `requeue`, `reduce_pass`, `claim_pivot`, `claim` | `reduce/*` supplies the columns, the ranks and the shortcuts | workers race for pivots; owners are displaced and reduced again; termination is detected with a lagging counter | the owners at the end are the serial pairs; no column lost or owned twice; no early and no missing exit |
| `reduce/*` | pivot table, V-columns, clearing sets, activation rows, bars | dimension 0 with union-find, reduce a column, emergent and apparent shortcuts, clearing, emission | called by `solver.rs`; `union_find.rs` for dimension 0 | the shortcuts store partial columns that later folds rely on; clearing trusts the pairs of the dimension below | the bars are those of the textbook reduction, whatever shortcuts are on |
| `factorization/*`, `factorization.rs` | depth-first search (discovery, low links, edge stack), separator search (pending blocks, count of tried candidates) | decompose, refine, select, solve blocks in any order | `solver.rs`, `program` | the search stops at a limit; blocks return out of order | the parts' bars are the whole's |
| `classes/*` | none across calls | canonical basis, validation of a cocycle | `program` | bases computed on a part are used on the whole | every basis element is a class of the whole at its scale |
| `collapse/*` | live edges, dirty set, removal certificate, queue of candidates and used tests | edge test; serial, ordered, rounds and adaptive schedules; replay of a certificate | `solver.rs`, `atlas`, `program` use the collapsed graph | verdicts are reused after the graph has changed; marking has a size limit | removals keep the persistent homology; the ordered schedule equals the serial one; the end is a fixed point |
| `distributed/*` | `objects/`, `jobs/`, `manifests/` on disk; coordinator's fold state | `put`, `commit`, `commit_stored`, resume, publish, load, verify | `relative_interface` composes artifacts | kills and power losses between any two writes; retries | a published manifest is complete and equals that of an uninterrupted run; retries always make progress |
| `program/*` | atoms with certified regions, current result, graph, checkpoints; the diagram-only state with its dirty flag | `compile`, `advance`, `advance_batch`, `branch`, `restore`, `advance_diagram`, `materialize` | `certificate`, `factorization`, `classes`, `atlas` | an update changes atom after atom and may stop at an error; a region is kept across reuses | the state is always one exact result of one graph |
| `program_wire`, `program_trace` | captured program; list of step records and checkpoints | capture, verify, continue; record, replay | `program`, `holos-tda-check` | the replay trusts recorded modes and counts work with a preview, the checker decides for itself | a captured program is the program; a trace a producer builds is accepted and ends in its program |
| `certificate/*` | reduction certificate of one atom, region of comparisons | build, repair, reindex, verify, compile and minimize a region, evaluate | `program` | a repair keeps the longest reduced prefix; a minimized region must imply the comparisons it dropped | inside its region the recorded pairs give the exact diagram |
| `index*`, `index_stream.rs` | tree of interfaces with their diagrams, the last root and sequence number | compile, transition, patches, delta and snapshot proofs | `graded_certificate`, `relative_interface`, `index_proof` | nodes shared between versions, repairs, a batch that fails part way | every interface is exact after every update |
| `holos-tda-check/src/index/*` | verified root, nodes and graph | `verify_snapshot`, `apply_delta` | records of `index_proof` | records lost, repeated, in another order | it holds a version of the stream, and can follow it |
| `graded_certificate/*`, `relative_interface/*` | none across calls | reduce, repair, cancel, glue, verify | `index`, `distributed` | a kept prefix of columns; cells that may not be cancelled | the core has the diagram of the whole |
| `monotone_search.rs` | cache of oracle answers, best plan, counters | greedy bound, branch and bound with blockers | used by `coverage_synthesis`, `intervention`, `synthesis` | stops at limits | the bounds bracket the optimum, whatever limit stops it |
| `io/*` | reader and two rotating buffers | window reader, parsers | `cli` | two bounded channels between two threads, early returns on both sides | every window parsed once in order; never both blocked |
| `union_find.rs`, `adjacency.rs`, `combinadic.rs`, `simplex.rs`, `field.rs`, `budget.rs`, `distances` | none across calls, or a plain structure | index arithmetic, neighbour rows | everywhere | boundaries of integers | equal to their definitions |
| `explicit_certificate`, `cohomology`, `circular`, `correspondence`, `zigzag`, `bipersistence`, `bifiltration`, `filtration` | none across calls | linear algebra over a prime field | artifacts | size, not order | equal to their definitions |
| `coverage*`, `synthesis`, `coverage_frontier`, `monotone_proof` | parts, their frontiers, the proof tree, within a call | search whole or part by part, compose, build a proof, verify it | `monotone_search`, the checker | limits that several searches share; builder, producer and checker each have their own rules | what the checker accepts is true, and a search that ends makes an artifact |
| `intervention`, `cohomology_intervention` | search state within a call | sequential search | `monotone_search` | limits | as `monotone_search` |
| `*_wire`, `*_artifact`, `proof.rs`, `holos-tda-check` | bytes | encode, decode, check | files | format | round trip, rejection of what is not canonical |
| `holos-tda-py`, `cli`, benchmark crates, `oracle.rs` | none | conversion, measurement, reference for tests | all | - | - |

`PROJECT.json` lists every component with its status and every hazard at its
line.

## 2. Plan

Order, most important behaviour first.

1. **Reduction** (done): `ReductionProblem` (chains, problems and what the
   serial pairs are), `PivotRegistry` (the abstract registry),
   `ParallelReduction` (the threads), `ReductionEngine` (either reducer, as the
   budget has it), `ParallelReductionProofs`.
2. **Collapse** (done): `CollapseGraph` (edge test and marking),
   `SerialCollapse` (the abstract schedule), `CollapseRun` (the state of the two
   schedules with dirty sets), `OrderedCollapse` (implements the serial one),
   `RoundsCollapse`, `AdaptiveCollapse`, and `CollapseVerifier`, which replays
   what the schedules return; `CollapseProofs`.
3. **Store** (done): `DurableStore`, `DurableStoreProofs`.
4. **Window pipeline** (done): `PointParser` (the parse of a text, whole or in
   chunks), `WindowPipeline` (two threads and two bounded channels),
   `WindowPipelineProofs`.
5. **Search** (done): `MonotoneSearch`, with the bounds that a stop at any limit
   must leave valid, and `SearchArtifacts`, what a coverage or a synthesis makes
   of it: frontiers of parts, proof trees, the claim and its checks;
   `MonotoneSearchProofs`, `SearchArtifactProofs`.
6. **Programs** (done): `PersistenceProgram` with its three owners
   `ProgramSession`, `DiagramState` and `ProgramTrace`, and below them one atom:
   `ReductionCertificate`, `CertifiedAtom`; `ProgramProofs`.
7. **Engine** (done): `FlagFiltration`, `RipsEngine` (dimension 0, clearing,
   shortcuts over a prime field), `GraphBlocks` and `SparseRips` (one request
   from input to bars), `RipsOracle` (the reference), `CanonicalClasses` and
   `ProgramComposition` (a graph compiled into atoms).
8. **Index** (done): `ChainComplex` (filtered complexes, their certificates and
   repairs), `RelativeInterface` (cancellation and gluing), `IndexTree` (the tree
   of interfaces and its updates), `IndexChecker` (the separate checker) and
   `IndexStream` (a stream of versions and a checker that follows it).

Left for later: the store's temporary names and unsynced root; several
coordinators; continuations and
correspondences of basis classes; the grid modules (`bifiltration`,
`bipersistence`) and `zigzag` against reference definitions.

Theorems, in order: the inductive invariant of the work queue, columns in one
place, owners that reduce; the program's soundness until a failed update tears it,
its artifact, its diagram state and its trace; the store's manifests, progress
files and returned commits; the ordered schedule implements the serial one, and
what the schedules take from a frozen graph stays true; the search's results and
its tree, the frontiers of parts and the claims made of them; a parse in windows
and chunks is the parse of the whole (all done, section 6).  Next: the engine's `FoldsAdvance` and `ColumnsReduced`.

## 3. The modules and the code

### Reduction of one dimension

A *chain* is a set of rows; sums are symmetric differences, that is Z/2
coefficients.  Rows are numbered in filtration order, so `LeadOf` (the pivot)
is the least row.  A *problem* is what the code computes from the input and
never changes: the coboundary of every column, of every apparent facet (named
by the negative of its row), and which columns may take the emergent shortcut.

The second part of `ReductionProblem` is `reduce/reduction.rs` and
`reduce/coboundary.rs` on one thread: `ReduceSerialColumn` folds a column with the owner of its pivot or an
apparent facet until neither exists.  `SerialPivots` is what the whole reducer
returns and the reference for the threads.

`PivotRegistry` says what the shared table promises: an owner of a row is only
ever replaced by a smaller column, and once the registry closes, the owners are
the serial pairs.

`ParallelReduction` is `parallel.rs`.  One worker is one program counter:

| label | code |
|---|---|
| `take`, `pop`, `dispense` | `WorkQueue::take`: load of `has_requeued`, locked pop, `fetch_update` |
| `report`, `check` | the dry branch of `worker`: subtract the private count from `pending`, load it |
| `init`, `look` | `reduce_pass`: build the column, then one fold per step; each looks the table up afresh |
| `claim` | `claim_pivot` under the entry's lock: `ClaimWon`, `ClaimDisplaced`, `ClaimLost` |
| `raise`, `pushDisplaced`, `pushLost` | `pending` up, then the locked push that raises `has_requeued` |

Each action is one access to shared memory plus the local work behind it.

*Abstractions.*  Atomics are sequentially consistent: a stale load of
`has_requeued` equals a load that happened before the store, which the
interleaving contains, and `pending` changes only by read-modify-write
operations with acquire-release order.  Every matrix of the bound is an input;
real coboundaries are a subset.  Eligibility for the emergent shortcut is an
attribute of a column, as in `init_coboundary`, and depends on the table only
through `contains_key`.  The idle spin, yield and sleep are one step back to
`take`.  Births, deaths and the diagram are not kept here: `RipsEngine` below keeps
them, with the clearing between dimensions and coefficients other than Z/2, and
reduces one column at a time.

### Edge collapse

An input maps pairs of points to levels: the distances that occur, in order,
since the code only compares them.  All edges of a run lie at or below the
terminal value, so that the comparison with it never fails here.

`CollapseGraph` has the schedule order, the edge test (`test_edge` with its
sweep of witness segments over the rising levels), the closed common
neighbourhood, the marking of dirty edges with its limit, and what a collapse
must preserve.  `SerialCollapse` is `collapse_impl`: one position per step.

`OrderedCollapse` is `ordered.rs`.  `FormStage` takes the next due edges up to
the window; `TestStage` is the parallel test of the stage, one action because
the graph is borrowed immutably until every worker is done; `RetireSkip`,
`RetireKeep` and `RetireRemove` are one position of the walk; `EndPass` starts
the next pass or ends the run.  The walk covers every position between the
members, because a removal can make a position due that was not due when the
stage formed.

`RoundsCollapse` is `parallel.rs` of the collapse: `TestDue`, `Select` (greedy,
with blocking), `CommitOne` per removal, `NextRound`.

`AdaptiveCollapse` is `adaptive.rs`: `PlanPass` scores every live edge that can
go on the graph of the pass, `RetireCandidate` takes the best one left and tests
it again on the graph as it is then; `PlanLimited` and `RetireLimited` are the
places where the limit of tests ends the run.

`CollapseVerifier` is `verify/`: `ReplaySerial`, `ReplayRounds` and
`ReplayAdaptive` are the rules of the three certificate versions.  It has its
own edge test (`Removable`, from critical values and dominating points) and
shares nothing with the schedules.  The module also composes the three schedules,
one per behaviour (`CollapseSpec`), with the certificate that each returns
(`Returned`); `MCCollapse` instantiates it.

*Abstractions.*  Counters, timings and the portfolio are left out.  A dead edge
stays in the adjacency list at infinite distance: it is no neighbour, but it
counts in the list's length, which decides whether marking gives up.

### Durable store

`DurableStore` is one coordinator over `objects/`, `jobs/` and `manifests/`
(the module documents a single writer).  A call is a chain of steps from
`Commit` or `CommitStored` to `Return`:

| step | code |
|---|---|
| `PutShard`, `Put`, `SyncObject` | `put` and `fs.rs` (write, `sync_all`, rename; then the directory's sync) |
| `Prepare`, `LoadCommit`, `NoManifest` | the first shard is read; a published job is loaded |
| `Resume`, `Start` | `resume_or_start` |
| `ComputeFold`, `WriteProgress`, `SyncProgress` | `compute_one_fold` and the progress record |
| `FinishProtection` | `finish_protection` |
| `Publish`, `SyncManifest` | `publish_commit` |
| `Kill`, `PowerLoss` | the process ends or a call to the file system fails; the machine stops |

A file has its bytes before it is renamed.  A rename is visible at once, and
survives a loss of power for certain only after the directory's sync; until
then the disk may hold the old entry or the new.  `volatile`, `onDisk` and
`volatileManifests` say which.  An artifact is the sequence of shards that it
composes and what it protects; its identifier is itself, as content
identifiers are.  Each object lies in a directory of its own; `jobs/` and
`manifests/` are shared by all jobs, so one sync covers them all.

### Window pipeline and parse

`PointParser` is the parse itself (`io/scanner.rs`, `io/points.rs`).  A text is
a sequence of numbers, words (tokens that are not numbers) and newlines, one
token where the code has a run of bytes; a point is its number of coordinates,
the only thing about it that an error depends on.  `Cuts` places the chunks of
a window as `line_chunks` does, `ParseChunk` is one worker, `Merge` one turn of
the loop in `PointSink::window`.

`WindowPipeline` is `for_each_window` (`io/window.rs`).  The reader thread and
the caller have a program counter each:

| label | code |
|---|---|
| reader `recv`, `fill`, `send` | `empty_rx.recv`; one read of `Windows::next_into`; `full_tx.send` |
| caller `recv`, `parse`, `give` | `full_rx.recv`; `consume`; `empty_tx.send` |
| caller `leave`, `drop`, `join` | the ends of the channels drop in the order of the code; the scope joins the reader |
| caller `fill` | `next_into` on one thread |

The channel of windows has capacity 1 as in the code; `Buffers` is 2, the
number of buffers and the capacity of the way back.  The file does not change
while it is read.  `reported` is the length of its metadata, 0 for a pipe;
`readable` says at which token a read fails, if at all.  While a buffer fills,
the model keeps what it has in the carry, which the code has moved into the
buffer.  The parse of a window is one action, although its chunks run on
several threads: they share nothing until they are merged.

### Monotone search

`MonotoneSearch` is `minimize_antitone`.  Each evaluation of the oracle is a
step, and the oracle's limit may stop the search at each of them; the limit of
nodes stops `StartExplore`.

| actions | code |
|---|---|
| `EvaluateEmpty`, `EvaluateAll` | `extreme_result` |
| `PackBase`, `PackTrial`, `PackBlocker` | `pack_blockers`, for the root, in `grow_greedy` and in `explore` |
| `Root` | `search_root` after the packing of the root |
| `GrowEvaluate`, `Grow`, `Minimize`, `Minimized` | `greedy_upper` |
| `StartExplore`, `ExploreUnion`, `ExploreBranch`, `Explored` | `explore` and its parts |
| `Finish`, `Conclude` | `finish_result`, `result` |
| `BranchBlocker`, `Branch`, `Children` | `select_branch`, `explore_branch` |

Sorted vectors of candidates are sets; the order of vectors, which breaks ties,
is `VectorBefore`.  The recursion of `explore` is a stack of the nodes to
visit: a child that is incomplete makes every caller return, so a stop drops
the whole stack.  The cache is the set of selections it holds, whose size is
the number of calls of the oracle.

### Search artifacts

`SearchArtifacts` extends it: `ProblemOf` is the problem that a search of the
whole, or of one part, is given.  A call has the costs of the actions, the states
where each counts, and a predicate of each state.

| definition | code |
|---|---|
| `Parts` | the components of states and actions in `coverage_frontier/compose.rs` |
| `StartBuild` | the whole problem, or the first search of the first part |
| `ExtendFrontier` | a search of a part has ended: its plan enters the frontier (`Insert`), the next limit, the next part, or the end |
| `Composed` | the merge of the frontiers, one plan per number of activations |
| `Build` | the claim and its proof tree (`Prove`), returned when it verifies |
| `Verifies`, `TreeVerifies`, `BlockersVerify` | the checks of a claim; with `checker` those of the separate checker |

Searches of parts share the limits of the call: `spent` is what the earlier ones
have used.  The builder asks without a cache, so that a proof may take more
questions than the search did (`checks`).

*Abstractions.*  The predicate of a state is any monotone one: the criteria
that the artifacts use (planar coverage, ranks of a relative homology) are
functions of the selection.  The limits on the nodes, the depth and the terms
of a proof, the formats and the digests are left out.

### Programs

`PersistenceProgram` has no variables: a program is a record, and an operation
maps it to the record that `&mut self` holds when the call returns, with `Ok` or
`Err`.  `Advance` is `advance_with`: the touched atoms are updated in order, each
reused, repaired or failed (`Reusable`, `Repaired`, `AtomFails`), and a failure
leaves those before it moved (`AdvancedAtoms`); a changed topology recompiles.
When all atoms have moved, the composition and the class correspondence may
still fail: the graph is then the new one, with the old result or the new
(`FinishWeightUpdate`).  The bindings' owner captures the artifact after that, and
the capture may go over its limits (`Captured`): `update` and `update_many` then
return an error with the program moved and the artifact behind it.
The weights of an atom are a member of `Locals`, its checked reduction a member
of `Certs` with the weights its region accepts; a diagram is the weights it was
computed from.  `Capture`, `Verifies` and `Loaded` are the captured program of
`program_wire/*`: graph, diagram, atlases, and the checks of a load.

| module | code | state |
|---|---|---|
| `ProgramSession` | `program.rs`, `program/update.rs`, the bindings' `SparseProgram` | `program`, its `artifact`, one `saved` checkpoint; `torn` says that a call returned an error and changed the program |
| `DiagramState` | `program/diagram.rs` | a program at older weights, the current graph and diagram, the dirty flag |
| `ProgramTrace` | `program_trace/*` | producer, records, and a verifier that replays them (`ReuseReplayed`, `CheckpointReplayed`, or `rejected`); the producer's counters are `RecordedWork`, the verifier's `PreviewedWork` |

Below them, `CertifiedAtom` takes one real atom through weights.
`ReductionCertificate` builds its filtered complex, builds, repairs and reindexes
the reduction, compiles its region (`ChangeGuards`, `PivotGuards`,
`MinimizeGuards`) and evaluates it.  `CertifiedAtom` also holds the checker's
replay of the same weights, which compiles its region anew each time and keeps
the class spaces apart, where the producer merges them.

### The engine and the composition

`FlagFiltration` has simplices, their order, zero-apparent pairs and chains over
a prime field.  `RipsEngine` is `reduce/*` on one thread: `WalkEdge` and
`FinishWalk` are dimension 0 with the union-find and the activation rows;
`StartColumn`, `FoldReducer`, `FoldApparentFacet`, `RecordPaired`, `RecordZero`
are one column; `NextDimension` carries the clearing set.  `GraphBlocks` is the
depth-first search edge by edge and the separator search with its limit.
`SparseRips` is a request: it routes to the whole graph or to its blocks, and
collects the blocks in any order.

`CanonicalClasses` and `ProgramComposition` are `compile`: blocks, separators,
the class spaces of each atom, their extension by zero to the whole
(`ComposeSpaces`) and the comparison with the whole's diagram.
`RipsOracle` is the textbook reduction, after `oracle.rs`.

*Abstractions.*  Simplices are sets of points rather than packed indices, with
the order the index gives.  A memory limit never bites.  Edge values are small
integers, so a value just below a death is the death minus one.

### The index

| module | code | state |
|---|---|---|
| `ChainComplex` | `graded_certificate/*`, `relative_interface/reduction.rs` | none: a filtered chain complex, its reduction, a certificate that keeps a prefix of an older one, and the checks of each |
| `RelativeInterface` | `relative_interface/*` | none: pairs of unprotected cells of equal value are cancelled; interfaces are glued along what they protect; the checker's replay |
| `IndexTree` | `index/*` | none: an index is the record [graph, root]; a node has its vertices, separator, children, policy and state |
| `IndexChecker` | `holos-tda-check/src/index/*`, `relative/*` | none: what a verified root and graph become by a record, or that it is refused |
| `IndexStream` | `index_stream.rs`, `index_proof.rs`, `index/transition.rs` | `index`, the `calls` to come, the `log` of versions with their proofs, the `verifier` and the version it holds |

A graph is split at its components, then at the first separator that the limit of
tries finds, down to leaves.  The three policies differ in what a parent keeps:
*materialize* reduces every part of the graph, *compose* adds the children's
diagrams while the separator is contractible and reduces the part otherwise,
*relative* glues the children's cancelled cores along the separators, which it
protects.  `UpdatedNode` walks the tree: a node without a changed edge is the old
one; a glued or composed node is made again from its children; a reduction is
repaired unless an edge crosses the threshold (`UpdatedState`).  `Commit` is the only place where a
call reaches the stream: a batch is made on a copy.

`Restart(i)` gives the checker the checkpoint of version i, `Follow(i)` the delta of
the step to it, both at any time and any number of times: that is loss, repetition
and reordering of records.  A refused record leaves the checker as it was.

*Abstractions.*  A digest is what it binds, so that equal nodes are one node
(`NodeOf`).  The envelope's edges are those listed in the input, whether active or
not.  Coefficients are those of Z/3.

## 4. The runs

| run | question | bounds |
|---|---|---|
| `reduction_matrices` | do two threads leave exactly the serial pairs, in every interleaving, with no column in two places and every owner reducible (`RefinesRegistry`, `ColumnInOnePlace`, `OwnersReduce`); and are the serial pairs, column by column, those of the ranks of the submatrices, a definition that does not reduce anything (`PairsByRank`)? | threads: every 3 x 3 matrix with and without the shortcut, every one that meets two apparent facets, 2 workers; serial: every 3 x 3 matrix with every choice of apparent facets |
| `reduction_contended` | is `pending` exact, does it never read zero early, and does every worker return (`IInv`, `NoEarlyZero`, `Termination`)? | four columns that contend for one pivot, 2 workers |
| `collapse` | is the ordered schedule the serial one step for step (`RefinesSerial`, `CacheFresh`), do the removals of a round leave each other's verdicts valid (`FrozenVerdictHolds`), does the replay accept every certificate of every schedule, complete or limited (`VerifierAccepts`), and is the shape kept (`KeepsShape`)?  And in behaviours of its own, the index: is every interface of the tree exact after every update, shared nodes and repairs included (`IndexExact`); does the checker only ever hold versions of the stream (`VerifierSound`), and can it follow, whatever records it got and whatever calls failed (`VerifierFollows`)? | collapse: every graph of four points with two distances, and the graphs around one of five points that takes five passes; windows 2 and 3 (a window of 1 is the serial schedule, but for its bookkeeping); work limits that never bind, stop the planning and stop the retirement; both objectives.  Index: nine streams of two or three calls under all three policies: separators that enter at zero and leave, cones that stop being cones, edges across the threshold, batches that fail part way, a separator search that hits its limit, a changed envelope, a tree with one interface twice |
| `full_retest` | *violated*: the certificate of the dirty-set schedule is that of a full retest (`MatchesFullRetest`) | one input of 13 points (`RetestInputs`), the schedules of `collapse` |
| `store_reader_search` | three components that do not meet, one per behaviour (see below) | store: two jobs that share two shards and a fold, three faults, of one kind or of both; reader: every file of up to 4 tokens and some of up to 8, windows of 1 to 3 tokens, 1 or 3 threads, with and without a failing read; search: every antitone predicate on four candidates in one state, and every choice of predicates of two or three states that share no action or one; two choices of costs in one state, one in several; limits of 1, 8 and 40 questions and of 2 and 16 nodes, one of the two low at most |
| `fold_durability` | *violated*: each fold is durable before the next one starts (`FoldsDurable`) | the store with one kill |
| `branch_order` | *violated*: a problem that is solved within its limits yields an artifact (`SolvedIsBuilt`) | a synthesis with three candidates |
| `programs` | three levels of a program, one per behaviour (see below) | two atoms of three weightings each, or one of them, or none, with regions that overlap and a repair above the limits; one call that tears a program before it is whole again (`MaxTears`); traces of three steps; weights of two graphs; about 1900 requests |
| `failed_advance` | *violated*: a program's result is that of its graph (`ResultIsCurrent`) | the owners of `programs` |
| `checker_replay` | *violated*: the checker accepts every step the producer records (`CheckerAccepts`) | two squares that share an edge |
| `composed_cocycles` | *violated*: `compile` accepts every graph (`CompileAccepts`) | five and six points with zero separators |
| `inactive_change` | *violated*: the checker advances by every delta of the stream (`RecordsAccepted`) | one stream that changes an inactive edge |

`store_reader_search` asks, of the **store**, through kills, failed calls and power losses: is a
manifest complete, that of a fresh run and never lost once returned; are progress
files usable; is every job committed in the end (`ManifestComplete`,
`ResumedAsFresh`, `AcknowledgedStays`, `ProgressUsable`, `EventuallyCommitted`)?
Of the **reader**: is the result that of a serial parse, and do both threads end
(`ResultIsSerial`, `Termination`)?  Of the **search**: are the results and the
bounds true whatever limit stops it, and is no solution lost (`ResultHolds`,
`NothingMissed`)?  Do the frontiers of the parts hold the least cost for every
number of activations, and compose to a cheapest plan (`CompositionHolds`)?  Does
a search that ended make a claim that verifies, here and in the separate checker
(`ArtifactAccepted`), and is every claim that the checker accepts true, altered
ones and ones made for a slightly different predicate or limit included
(`ClaimsSound`)?  `owner` says which of the three a behaviour is about; the other
two stay in a state of rest.

`programs` asks, of the **owners**: is the program sound until a failed update
tears it (`SoundUntilTorn`), does its artifact load (`ArtifactLoads`), does a
refused call leave both alone (`FailedCallKeepsProgram`), does the diagram-only
state answer for its current graph (`DiagramIsCurrent`), which traces replay to
the producer's program, and where does the verifier stop at the others
(`ReplayAgrees`)?  Of **one atom**, through every sequence
of weights: is the diagram that of a reduction from nothing (`DiagramExact`), is
a certificate whose region holds still one that verifies (`AcceptedReindexes`),
with the bars that the region evaluates, does the region accept the same weights whichever accepted weights it was compiled
at (`RegionStable`), and does the checker follow with the same counted work while
the class spaces agree (`CheckerFollows`)?  Of the **engine**: are the bars of
every request, whole or factored, with or without shortcuts, the textbook's
(`BarsExact`), does every stored column reduce to its pivot (`ColumnsReduced`),
does each fold move the pivot on (`FoldsAdvance`), and is a compiled program's
composed diagram the whole's (`ComposedDiagramExact`)?

Why the bounds are enough.  Three columns are the fewest in which a displaced
column displaces another in turn, and two workers are the fewest that race for a
pivot; with four columns on one pivot a displaced column is displaced again while
the other worker looks for work.  `MarkLimit` is 3 in place of 64, so that
graphs of five points have neighbourhoods on both sides of it; only which
edges are marked depends on it, never a verdict.  For at most five points
a flag complex has no second homology (the octahedron is the first with
some), so the components and the Euler characteristic fix
its Betti numbers.  The store's jobs share shards, so one call's
objects are the other's; three faults allow a fault in a call, in its
resumption and in the other job.  Windows of one to three tokens make lines
longer than a window, windows with several lines and windows that end with
the file; the longer files put a wrong line in a later window and in a chunk
other than the first.  With four candidates all 168 antitone predicates are
inputs, among them those with two disjoint blockers and those whose optimum
the greedy selection misses, so that the tree finds it; only 16 selections
exist, so a limit of 40 calls never binds one search, 1 stops before the packing of the
root and 8 in it or in a later stage; with parts, whose searches share the limit, 1
and 8 stop before and in each of them.  Two actions in each of two states, with or
without one that counts in both, and three states of which two are joined, are the
smallest cases where frontiers compose and where they must not.  Two atoms are the fewest of which an
update can move one and fail at the other; the three weightings of an atom are
one inside both regions and one outside each.  The weights of the square and of
the two squares make pairs change places, intervals merge and separate, and an
edge cross the threshold.  The requests hold every graph of four points with two
lengths, the octahedron's neighbourhood (the first graphs with a second
homology, so that clearing meets two dimensions), and graphs with several
blocks and separators; coefficients are those of Z/3, where signs matter.

Deadlock is checked in the reduction runs: the only state without a worker's
step is the one where every worker has returned.  The collapse runs end, the
store is idle when no call is made, and a request, a trace and a diagram state
end, so those runs do not check it.  The reader's `Termination` says that neither
of its threads waits for ever, the search ends with a result, and an index stream
ends with its calls while the checker may be given records again for ever.

*Fairness.*  `reduction_contended` assumes weak fairness of each worker: a pool
thread that can run is scheduled.  Nothing is assumed of who wins a claim.
For the store, `store_reader_search` assumes that a call under way goes on and, for every job, strong
fairness of `Commit`: its caller retries (idle recurs, it does not persist).
Faults are bounded by `MaxFaults`; without an end to faults nothing is promised.
For the reader it assumes weak fairness of the reader and of the caller, two
threads of the operating system that run when they can; the fairness of the
parse is stated on the program counter alone, since a parse is the only step
that leaves `parse`.

Each property has a mutant in `PROJECT.json`: a plausible defect of the code
under which its run fails.  The mutated operators stand beside the originals,
under a comment that says what is changed.

## 5. What the checks show

Everything listed as a question above holds, with the exceptions below, where the
code parts from its documentation or from what it is for.

* **A fold may be volatile when the next one starts.**  `distributed.rs:5` says
  "Each fold is durable before the next one starts".  `put`
  (`distributed/store.rs:36`) returns at once for a visible object.  When an
  earlier call stopped between the rename and the directory's sync, the object
  is visible and not durable, and the resumed call goes on without a sync.  A
  later loss of power can then take a fold that the synced progress file names,
  and every retry fails on it.  With kills alone or losses of power alone this
  does not happen.  Where both kinds meet, `ProgressUsable`, `ManifestComplete` and
  `EventuallyCommitted` are false for this reason, and say nothing
  (`FaultsApart`).
* **A returned commit may be lost.**  `distributed/model.rs:104` calls what a call
  returns a "completed distributed composition and its durable manifest".  A call
  that ends, by a kill or a failed sync, after the rename of the manifest and before
  the directory's sync leaves it visible; the retry loads it and returns the commit
  without a sync (`store.rs:146`, `load_commit`), and a loss of power takes it.
  `AcknowledgedStays` holds with this exception: a commit whose manifest was synced
  stays under every mix of faults; one that was not (`trusted`) stays where the
  kinds do not meet.  `store_reader_search` has behaviours of both kinds, and the
  mutant `LoadVisible`, which drops the distinction, fails there.
* **The dirty set does not always give the certificate of a full retest.**  The
  comment at `collapse/execution.rs:52` says the sets cover every edge whose
  verdict could have changed, "so the certificate matches a full retest".  When a
  neighbourhood is too large to mark, only the *next* pass tests every edge.
  An edge later in the *same* pass is still skipped there, and is removed one pass
  later than under a full retest.  The collapse is no less valid and still ends
  in a fixed point (`VerifierAccepts` holds, and the verifier tests every edge that
  is left); only the order of the certificate differs.  The same happens with the limit of 64 on 256 points.

* **A failed update can leave a program whose later results are wrong.**
  `advance_with` (`program/update.rs:191`) moves the atoms in place and returns at
  the first one that fails, with the program's graph unchanged.  The next update
  looks for changed edges against that old graph: an atom already moved whose edges
  the new graph has as the old one had is not touched, and the result is composed
  from weights it no longer has.  `update.rs:22` calls the result exact and
  current.  `advance_batch` works on a copy and tears nothing (in the bindings it may still end
with an error after the program has moved on, when its artifact is over the
limits), and neither does an update that
  fails at its first atom or is refused beforehand.  `SoundUntilTorn`
  is what holds, and it is proved.
* **The producer's verifier refuses traces with a recompiled cyclic graph.**  For a
  step with a changed topology the producer records the columns of the new program
  (`recompile_work`, `program/update.rs:442`).  `replay_checkpoint_step` counts with
  `preview_update`, which says 0 columns (`update.rs:365`), and `check_replayed_step`
  compares all counters (`program_trace/replay.rs:83`).  A trace that `build` has just
  returned is then refused by `verify`, `holos verify-program-trace` and Python's
  `verify_program_trace`, which `README.md:420` names as its verifiers.  `ReplayAgrees`
  states exactly this: every other trace is accepted with the producer's program
  at its end, and an error comes only at such a step.  The separate checker counts
  as the producer does.
* **The checker refuses some traces of a faithful producer.**  When two class
  spaces' intervals become equal the producer merges the spaces
  (`program/composition.rs:368`); when the intervals separate again it repairs and
  records a checkpoint.  The checker keeps the spaces apart, finds that it could
  reuse the atom, and refuses "reused update has a checkpoint"
  (`holos-tda-check/src/program/trace.rs:254`).  `program_trace.rs:3` promises a
  checkpoint only when reuse is not possible, which the checker decides by its own
  rule.  `CheckerFollows` says that it agrees in all other cases.
* **`compile` refuses some graphs.**  The canonical cocycles of an atom are freed of
  coboundaries along a forest rooted at the atom's least point, so that a cocycle
  may keep its only term on an edge of a zero separator away from that point.
  Extended by zero (`program/composition.rs:306`) it is not closed on a triangle
  beyond the separator, and `validate_h1_cocycle` fails the call.  A square and a
  triangle glued along a zero edge without the least point are enough.  The
  composed *diagram* of such a graph is exact (`ComposedDiagramExact`): only the
  representatives are not.
* **Some solved syntheses cannot be built.**  The proof builder of a synthesis
  sorts the candidates of a branch by cost (`synthesis/proof.rs:182`) and writes
  them in that order; the verifier that it runs on its own artifact
  (`synthesis/proof.rs:451`, called at `synthesis/artifact.rs:82`) and the
  separate checker ask for ascending candidates.  `build` then fails for a problem
  it has solved, where `synthesis/artifact.rs:12` says that it solves the problem
  and builds its proof tree.  Three candidates are enough.  A coverage branches in
  the order of the candidates (`monotone_proof`), and `ArtifactAccepted` holds
  for it.
* Three limits of the artifacts, which no document denies.  A composed coverage
  that may ask fewer questions than it has parts, while the empty plan is
  enough, gets an error instead of an incomplete artifact (`ArtifactAccepted`
  exempts it).  The builder asks without a cache, so that its questions may
  exceed the limit that the search kept.  A synthesis's checks do not prove the
  lower bound of an incomplete result; those of a coverage do (`ClaimsSound`).
* **The checker refuses the delta of an inactive change.**  A digest binds the
  active edges of a part (`graded_certificate/digest.rs:5`).  A patch that moves an
  edge from one value above the threshold to another changes no digest, so the
  delta lists a change and no node, and `apply_delta` refuses it
  (`holos-tda-check/src/index/delta.rs:145`, `state.rs:485`).  `index_stream.rs:84`
  promises a delta for every change inside the envelope and `index_proof.rs:5` a
  checker that advances by it.  A checkpoint gets the checker going again.
  `VerifierFollows` says that nothing else stops it, with one exception that no
  document speaks of: when the tree holds one interface at two places, the
  producer writes it once and the checker refuses the snapshot as one with "a
  repeated child" (`state.rs:174`).  Six points are enough for it (`Twin` in
  `MCCollapse`).

## 6. The proofs

Eight modules hold theorems.

**`SetFacts`** holds what the others share: the least element of a set of naturals,
the ranks of a strict order (`RanksNumber`), and sums over a set.  `SumsCountUnits`
is the way around induction over data: a fold of `+` over a finite set is the
number of its *units*, one pair for each element and each unit of its value, so that
sums can be compared by injections between finite sets.  `RecursionExists`, `LoopEnds`
and `LoopKeeps` are the same for functions defined by recursion and for loops.

**`ParallelReductionProofs`** proves, for every number of columns, rows and workers
and every problem:

* `InductiveInvariant` (`Spec => []IInv`), `TypeCorrect`, and `PendingIsSafe`
  (`NoEarlyZero`), the comment of `worker` that `pending` never reads zero with a
  column still in flight.
* `ColumnsInOnePlace` (`ColumnInOnePlace`), `OwnersAlwaysReduce` (`OwnersReduce`).
* `RegistryRefined` (`RefinesRegistry`): every step of the workers is a step of
  `PivotRegistry`, and when the last of them leaves, the owners are the serial pairs.
* `PivotsUnique`: however the columns of a problem have been reduced, the same
  columns own the same rows.
* `SerialPairsByRank` (`PairsByRank`): after every column the serial table holds the
  pairs that the ranks of the submatrices determine.  It is a theorem of
  `EngineSpec`; `EngineRuns` carries those of `Spec` over to it.

From the assumptions `ReductionProblem` and `ParallelReduction` name: the sizes
are natural numbers, the workers are a finite nonempty set, the inputs are
problems.

The argument.  `NoEarlyZero` is not inductive: it says nothing of a state in
which `pending` is too small but not zero.  `IInv` adds what `pending` counts:
`Outstanding` is the set of tokens for the undispensed columns, the entries of
the stack, the workers in a pass, the displacements between count and push and
the finished columns not yet reported; `Accounts` says that it is finite and
that `pending` is its cardinality.  Each step then adds, removes or renames
tokens: dispensing renames one, reporting removes as many as it subtracts,
displacing adds one exactly when `pending` rises.  At zero the set is empty,
which is `NoEarlyZero`.  The same count shows that the unsigned `pending` never
wraps, the part of `TypeOK` that needs it.  `ClaimsPivot` is there because the
table's type depends on the claimed pivot being a row.

`ColumnInOnePlace` counts the places of a column; `OnePlace` says the same without
counting, and every step takes one column from a place that it has to another and
gives no other column a place (`MovedPlace`).  `OwnersReduce` needs the columns
under way: `PassReduces` says that a working column is the sum of its own
coboundary and of those that its worker has folded, all of smaller columns, or that
it takes the shortcut with a pivot that has no apparent facet; so a claim stores a
form that starts from its own column and leads at the claimed pivot.

That the pairs are those of the serial reducer is an argument about matrices.
`Span(p, n)` is what the apparent facets and the columns before `n` span, `Leads(p, n)`
the rows at which a nonzero chain of it can lead.  A table is `Settled` up to `n` when
an owner is its column plus a sum of what comes before it and leads at its row, and
every column before `n` that owns nothing is a sum of what comes before it.  Then
`Leads(p, n)` grows by the row of column `n` when that column owns one and not at
all otherwise (`OneLeadAdded`, `NothingAdded`), so that the owners can be read off the
leads, which no table enters: `PivotsUnique`.  The threads leave a settled table
because of two more invariants: `FoldsFoldable` (nothing but columns and facets of
apparent rows is folded in, and no such row is claimed) and `NothingLost` (a column
that is in none of its places has been reduced to zero and is a sum of what comes
before it).  The serial reducer leaves a settled table too; its loop is a recursive
function, and `LoopEnds` and `LoopKeeps` of `SetFacts` say of every loop whose
measure falls that there is such a function and that what a turn keeps holds where it
stops.  Here a turn cancels the pivot, so that the pivot rises (`TurnShrinks`).

For `PairsByRank`, the chains of a span cut off after row `r` are as many as the sets
of leads up to `r` (`CutsCounted`: two of them that meet the leads alike are equal, and
every set of leads is met by one), so the rank is the number of leads up to `r`
(`RankCountsLeads`), and a row and a column are a pair of the ranks exactly when the
column adds that row to the leads.

**`CollapseProofs`** proves, for every graph, every window and every marking limit:

* `PreparedInOrder`: the prepared sequence lists every edge once, in schedule order.
* `OrderedInvariant`, `CacheAlwaysFresh` (`CacheFresh`) and `OrderedIsSerial`
  (`RefinesSerial`): the ordered schedule implements the serial one, each test,
  removal and end of a pass.
* `RoundsInvariant` and `RoundsCommute` (`FrozenVerdictHolds`).
* `OrderedExhausts`, `RoundsExhaust`: a run that ends leaves no live edge that
  passes the edge test.
* `CollapseInvariant` and `CertificateAccepted` (`VerifierAccepts`): the verifier
  accepts what the ordered, the rounds and the adaptive schedule return, for every
  work limit.
* `ShapeKept` (`KeepsShape`): at every level, what is left has the components and
  the Euler characteristic of the input, whichever schedule runs.

The argument.  The verdict on an edge depends only on the graph within its closed
common neighbourhood, and neighbourhoods are symmetric: if the ends of k lie in that
of i, those of i lie in that of k.  So a removal that marks its own neighbourhood
marks every edge whose verdict it could change, which keeps `CacheFresh`; and a
greedy selection that blocks forwards also keeps later removals out of earlier
neighbourhoods, which keeps `FrozenVerdictHolds`.  `MembersAlive` is the
strengthening for the first: a member that the walk has not reached is not yet
removed.  Under the refinement mapping the serial cursor is the next due position
(`Cursor`), so that forming a stage, testing it and walking past an edge that is
not due are stutters, and every other step of the walk is one of the serial
schedule's.  For the end of a run, `NothingForgotten` (`RoundsForgetNothing`) says
which edges may still pass the test while a pass is under way: those that are
marked, those not reached yet, or any after a neighbourhood too large to mark.

For the certificates, `TestMatchesCheck` is the lemma between the two programs that
share no code: the witnesses of an edge that passes the test are what
`check_witnesses` wants, and an edge that fails is one that `edge_removable`
refuses.  The sweep of the test decides only at the levels where a candidate enters
and keeps its apex as long as it reaches the newcomers; the check looks at every
critical value and wants the first dominating candidate wherever a segment starts.
`SweptTo` is what relates them: a kept apex still dominates, since the candidates
between two entries do not change.  The invariant is then that the removals so far
are a history that the replay of this version accepts.  For the ordered schedule
each was allowed on the graph that those before it left (`OrderedHistory`); for the
rounds it was allowed on the graph *before its round* and lies apart from the other
removals of the round (`RoundsHistory`, with `SelectionStands` for the part of the
selection that is still to go); the adaptive schedule numbers its removals in turn
and never spends more than its limit (`AdaptiveInv`), and its queue holds each live
candidate once (`QueueHolds`).  With `NothingForgotten` the last graph is the fixed
point that a complete certificate claims.

For the shape, `TestedIsDominated` says what the witnesses are good for: between two
critical levels no candidate enters, so an edge that passes the test has, at *every*
level from its value on, a common neighbour within the level of all the others.  Its
ends are then joined by way of that point, and the same sets of points are closed
under the level with and without the edge (`AroundSame`); a component is the least
such set that holds its point (`ComponentIsLeast`).  And the point can be put into,
or taken out of, every simplex that holds both ends (`CofacesToggle`), which pairs
the even ones with the odd ones, so that the Euler characteristic does not see them
go (`EulerSame`).  What makes this a property of the schedules is `OnlyAllowedGo`:
each removal is one that the test allows on the graph *as it is*, although the
ordered schedule and the rounds have their verdicts from an earlier one.  It needs
`CacheFresh` and `FrozenVerdictHolds`, and that no pair of points has two edges
(`Simple`), which a prepared input keeps to.

**`ProgramProofs`** proves, for every set of atoms, shapes and weightings, every
choice of regions, repairs and reductions above the limits, and every set of
batches (the assumptions are those `PersistenceProgram` names: what a region
accepts, and that a compiled or a repaired reduction accepts the weights it was made for):

* `ProgramInvariant`: `Spec => []IInv`.
* `SessionTypeCorrect` (`TypeOK`) and `ProgramSoundUntilTorn` (`SoundUntilTorn`).
* `CapturedArtifactLoads` (`ArtifactLoads`), `RefusedCallKeepsProgram`
  (`FailedCallKeepsProgram`).
* `DiagramTypeCorrect`, `DiagramAlwaysCurrent` (`DiagramIsCurrent`).
* `TraceReplayAgrees` (`ReplayAgrees`), for traces of any length; that the counters
  differ exactly at a recompilation into cyclic atoms is `CountersAgree`.
* Of one atom, for every set of weights (`WeightingsAssumption`: edges of natural
  numbers in order, values in `Nat`), any threshold and prime:
  `RegionKeptIsCompiled` (`RegionStable`), `AcceptedMeansLegal`
  (`AcceptedReindexes`), `CheckerTakesEveryStep` (`CheckerFollows`), and
  `KeptRegionAccepts`: the current weights are always accepted.

The argument.  `SoundUntilTorn` is not inductive for two reasons: `Restore`
brings back what `Checkpoint` saved, and an update is right only if the result it
starts from is composed of its atoms.  `IInv` is `Shaped` for the program and the
saved copy, and, where they are not torn, `Sound` and `artifact = Capture(program)`.
The lemma on `Advance` has a case for each of `advance_with`'s ends: recompiled,
all touched atoms moved (with the composition and the correspondence still to
fail), or stopped at an atom; `TornAfter` is true when an error comes with a
changed program.  In the diagram-only state the program
may lag behind the graph, but only while `dirty` is set, and `Materialize` never
uses the stale result.  The invariant of a trace
is about histories: there is a sequence of programs, one more than there are
steps, that starts with the compiled one and in which each step's record is what
`StepRecord` says of its two neighbours; the verifier stands at its own
position in that sequence.  The witness for a new step is the old history with the
producer's new program appended.

For one atom the invariant is `AtomInv`: the reduction checks at the current weights,
the region is the one that it compiles to there, and the checker holds the same
reduction.  A repair and a recompilation end with `ReductionsCheck`; what takes a
proof is a reuse, in four steps.  (1) Every comparison a reduction makes goes up in
the filtration at the weights where the region was compiled (`GuardsRise`).  (2) So
the guards that `MinimizeGuards` keeps imply those it drops, at any weights where
the order of simplices is transitive (`MinimizedImply`): a dropped guard that is wrong and
as short as possible, counted in positions, would lie over a path of shorter guards,
which hold.  (3) The order by value and rank is strict and total on the edges and
on the triangles, because colexicographic ranks number them (`EdgesByRank`,
`TrianglesByRank`, from Pascal's rule in `Choose2Facts` and `Choose3Facts`), so
that positions number them (`PositionsNumber`).  (4) With every guard in place no
term moves behind its column and no row behind its pivot (`TriangularStays`,
`LastStays`): the same columns check at the new weights, have the same pivots and hence
the same pairs and joins, and compile to the same region (`AcceptedChecks`,
`AcceptedRegion`).  Nothing is assumed of how `Build` or `RepairCertificate` reduce,
only that what they return checks, as the code does after each.  That the diagram
read off a checked reduction is the one of any other (`DiagramExact`) is linear
algebra and is model-checked.

**`DurableStoreProofs`** proves, for every set of jobs, shards and protections, any
number of faults and any interleaving of calls and faults (the assumption is that
a job has at least one shard and a shard composes itself alone):

* `FreshInvariant` and `ResumedIsFresh` (`ResumedAsFresh`), whatever faults meet.
* `ReturnedInvariant` and `CommitsSurvive` (`AcknowledgedStays`), whatever faults meet;
  for commits returned without a sync the property itself asks that the kinds do
  not meet.
* `DurableInvariant`, `NamedIsStored` (`ManifestComplete`) and `ProgressStaysUsable`
  (`ProgressUsable`), which ask it throughout (`FaultsApart`): where kills and
  losses of power meet they are false, which is the finding on volatile folds.

The argument.  `FreshInv` says that a progress file, visible or still on the disk,
holds a prefix of the job's folds, and that a call that folds holds the prefix it
has come to.  `Safe` is what no fault of the run can take: every visible object
where only kills occur, every synced one where only power is lost.  `Safe` never
shrinks, so that `DurableInv` only has to follow what enters: an object is in
`Safe` before a progress file names it, a progress file's folds are before a
manifest names them, and where power may be lost nothing is unsynced except what
the call is about to sync (`VolatileInv`), since a call that fails early has left
nothing unsynced.  `ReturnedInv` needs none of this and no restriction on the faults:
a loss of power takes only unsynced entries, and a manifest is synced before its job
is `acknowledged`.

**`MonotoneSearchProofs`** proves, for every finite set of candidates, all positive
costs, every antitone predicate and all limits, of one call after another
(`SearchSpec`; the assumption is that candidates are finitely many numbers):

* `SearchInvariant`: `SearchSpec => []SearchInv`.
* `SearchResultHolds` (`ResultHolds`): an optimal result is a cheapest selection,
  an infeasible problem has none, and the bounds of a stopped search enclose
  every solution.
* `NoSolutionMissed` (`NothingMissed`).

The argument.  Without one of its blockers a packing survives (`IsPacking`), so a
rejected selection takes a candidate from each.  The blockers are disjoint, so these
candidates differ: their number bounds the size and their units the cost
(`PackingBounds`, by an injection of units).  `PackingHolds` is what makes a packing
one at each of its own steps: the blockers lie among the used candidates, the used
among the retained, and what is retained survives, so that the next blocker, all
that is not retained, is disjoint from those before.  `RootBounds` keeps the
first packing's bound for a later stop.  `TreeHolds` says that every solution is
reached by the best or lies below a node of the stack; a node may go when nothing
cheaper lies below it (`NodeDone`: limit of size, cost, union, packing), or give way
to its children, because a solution below it lies below the child of the *first*
candidate of the branch that it takes (`ChildrenCover`).  The limits appear
nowhere in the invariant: a search may stop at any step.  The sums of the code may
overflow and end the call with an error; the model's do not.

**`SearchArtifactProofs`** proves, for every set of calls (`CallsAssumption`: costs are
positive, every action counts in some state, the needs of a state are met by actions
that count there, and the limits are positive):

* `ArtifactInvariant`: `ArtifactSpec => [](SearchInv /\ ArtifactInv)`, and from it
  `BuildResultHolds` (`ResultHolds`) of every search of a build.
* `FrontiersCompose` (`CompositionHolds`): what a part's frontier holds is the least
  cost for every number of activations, and the composed plan is a cheapest one.
* `EveryAcceptedClaimTrue`, and `ClaimsAreSound` (`ClaimsSound`): what the checker
  accepts is true, for every claim, proof tree, antitone predicate and limit.

The argument.  *The frontier.*  `CompositionHolds` says nothing of a part that is
still searched.  `Progress` does: its frontier answers (`Answered`) for the numbers
below the current limit and from the bound of the last optimum on, because a plan
that is best for k activations and uses fewer is best for all numbers between.  The
loop goes on while the limit is below that bound, so nothing is left open when it
ends (`DoneExtends`); that each search's answer is right is the invariant of the
search (`PartAnswered`), for which the problem of a part, with what the searches
before have left of the limits, must be a problem (`PartIsProblem`, `BudgetHolds`).
*The composition.*  The parts are a partition (`BlocksPart`, `PartsPart`: the blocks
are the classes of a closure, their order numbers them), so a plan of the whole is
the union of its plans of the parts, and costs and sizes add (`PricesAdd`).
`PartialsHold` carries the loop: after n parts every selection for those parts is
matched by a plan that costs no more and is no larger.  `DifferenceDecides` makes
the order of plans total, so that the code's choice among equals is one plan
(`BestPlan`).  *The claims.*  A tree is a finite function from paths.  A solution cheaper than the
claim would have a way down that takes only candidates of it and leaves none of
them out (`BranchGoesOn`); no node on the way is a leaf that verifies
(`NoLeafOnTheWay`), because a packing checked there bounds what the solution must
still pay; and a longest way has nowhere to end (`TreeCloses`).  No
induction over the tree is needed.  What the theorems leave out is completeness: that
a search which ended makes a tree the checker accepts (`ArtifactAccepted`) follows the
recursive builder, and is model-checked.

**`WindowPipelineProofs`** proves, for every file, window size, reported length,
failing read, number of threads and of buffers and smallest split (the assumption
is that an input has these fields):

* `ChunksDoNotMatter`: a text parsed after whole lines, in any number of line chunks,
  comes to what all the lines come to, which is the comment of `parse_point_cloud`.
* `PipelineInvariantHolds`: `PipelineSpec => []PipelineInvariant`.
* `ResultAlwaysSerial` (`ResultIsSerial`).

The argument has two halves.  *The parse.*  The lines of a text are built token by
token, and those of two texts joined at the end of a line are the lines of the one
followed by the lines of the other (`LinesConcat`).  What a parse keeps of lines is
fixed by their first point and their first wrong line, so that lines merged chunk by
chunk come to what the lines joined come to (`MergeSunk`): the second chunk is measured
against its own first point, and then that point against the first of the file;
when they differ, that point is the first wrong line of both, because a chunk keeps
no point behind a wrong line.
`CutsAreGood` says that `line_chunks` cuts at ends of lines only and in order, so
the chunks of a window are the window.  *The pipeline.*  `NothingLost` says that,
while the parse goes on, what was parsed, what the caller holds, what lies in the
channel, what the reader is about to send and what it carries over are, in this
order, the file up to where it was read, and that only the last of them may
break a line.  A window is therefore parsed after whole lines, and its first line has
the number that counting newlines gives (`LinesCounted`, `SinkIsSerial`); an
error in it stays the first error of the whole file (`SunkAfterError`).
`SidesAgree` and `NothingLost` together exclude the ways in which a side that
leaves early could be taken for the end of the file: the reader exits only at the end,
after a failure it has sent, or once the caller has left.  No fairness is
assumed; that a call ends is `Termination`, which is model-checked.
`PipelineInvariant` was checked by TLC on small files before it was proved.

What a recursive function computes is reached without induction over data:
if it differed from what it should be somewhere, then at a first place, and there
its equation says otherwise (`FirstFailure`, `SameRecursion`, `RecursionExists`).

`TypeCorrect`, `SessionTypeCorrect`, `DiagramTypeCorrect` and the invariants
`OrderedInvariant`, `RoundsInvariant`, `SearchInvariant` and so on are theorems only:
no run lists a type invariant of its own, since `reduction_contended` checks `IInv`,
of which `TypeOK` is a part.

Only model-checked: that a search's artifact is accepted (`ArtifactAccepted`); that a checked reduction gives the
diagram of a fresh one (`DiagramExact`); the engine, the factorization, the
composition and the index.  Out of the prover's reach: `Termination` and `EventuallyCommitted`
(liveness under fairness), and what recursion over trees and chains computes for
every input (the trees of `Prove` and `IndexTree`, the reductions of
`ReductionCertificate` and `RipsOracle`), which needs induction over data; the
modules that reach a RECURSIVE operator hold no theorems.  A recursive function on
an interval (`Lines`, `Cuts`, `ParseWindow`), a greedy choice (`GreedyExists`) and a
sum can be reasoned about, because an equation fixes them that a least
counterexample settles.

## 7. Not modelled

* In the threads of one dimension: coefficients other than Z/2 (`RipsEngine` has
  them, on one thread).  In the engine: the deferred pairing test of the cycle
  edges, which reads the same distances, and memory limits.
* The collapse portfolio, and the comparison of a certificate's header with its
  input.
* In the store: the 100 temporary names per process, the unsynced root
  directory, `verify_manifest`, limits on bytes, several coordinators.
* In the parse: bytes that are not UTF-8, and the matrix readers, which are two
  more consumers of the same windows.  In the search: errors of the oracle,
  which end the call.  In its artifacts: the criteria themselves (planar coverage,
  ranks), the limits on a proof's nodes, depth and terms, the formats, and the
  interventions, which search the same way.
* In programs: continuations and correspondences of basis classes between two
  results, cycle witnesses, digests, bytes and byte limits.
* In the index: branches and batches of branches, class correspondences,
  summaries, the limits on work, bytes and retained nodes, and the wire formats.
* The components marked `not_modelled` in `PROJECT.json`, each with its reason:
  pure functions of their arguments (grids, correspondences, zigzags, coverage
  geometry),
  formats, bindings and measurement programs.
