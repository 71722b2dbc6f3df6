------------------------------ MODULE DurableStore ------------------------------
(****************************************************************************)
(* The durable interface store (distributed/store.rs, distributed/fs.rs):   *)
(* one coordinator folds the shards of a job one by one, stores each fold   *)
(* under its content identifier, records its progress, and publishes a      *)
(* manifest.  It may be killed, or the machine may lose power, between any  *)
(* two steps; a later call for the same job resumes.                        *)
(*                                                                          *)
(* A file is complete before its rename (write_all and sync_all of the      *)
(* temporary file), so that a visible file has its bytes.  A rename         *)
(* survives a loss of power for certain only once the directory is synced:  *)
(* until then the disk may hold the old entry or the new one.               *)
(*                                                                          *)
(* An artifact is the shards it composes, in order, and the vertices it     *)
(* protects; its content identifier is the artifact itself.                 *)
(****************************************************************************)
EXTENDS Integers, Sequences, FiniteSets

CONSTANTS
  Jobs,         \* the jobs, one for each content-bound job identifier
  ShardsOf,     \* the shard artifacts of each job, in order
  JoinOf,       \* what each job protects in an intermediate fold
  OutputOf,     \* what each job protects in its result
  Environments, \* the kinds of fault that may occur together in a run
  MaxFaults     \* how many faults a run meets

\* A shard composes itself alone.
IsShard(a) == a = [of |-> <<a.of[1]>>, protect |-> a.protect]

ASSUME StoreAssumption ==
  /\ \A j \in Jobs :
       /\ Len(ShardsOf[j]) \in Nat \ {0}
       /\ \A i \in 1 .. Len(ShardsOf[j]) : IsShard(ShardsOf[j][i])
  /\ Environments \subseteq SUBSET {"kill", "power"}
  /\ MaxFaults \in Nat

VARIABLES
  \* the disk
  objects,           \* the artifacts that are visible under objects/
  volatile,          \* those whose directory entry may not survive
  progress,          \* the visible progress file of each job
  onDisk,            \* the contents that a loss of power may leave there
  manifests,         \* the visible manifest of each job
  volatileManifests, \* the jobs whose manifest entry may not survive
  \* the coordinator
  pc,                \* its next step
  after,             \* the step that follows the put under way
  job,               \* the job of the call
  next,              \* the number of shards put, or folded, so far
  folds,             \* the fold artifacts so far
  accumulator,       \* the artifact in memory
  \* what the callers know and what may still go wrong
  acknowledged,      \* the jobs whose manifest was on the disk for certain
                     \* when a call returned their commit
  trusted,           \* those of a commit returned for a manifest that was not
  environment,       \* the kinds of fault of this run
  faults             \* the number of faults so far

disk     == <<objects, volatile, progress, onDisk, manifests, volatileManifests>>
local    == <<after, job, next, folds, accumulator>>
returned == <<acknowledged, trusted>>
world    == <<environment, faults>>
vars     == <<disk, pc, local, returned, world>>

None == <<>>

\* The artifacts of a job.
Compose(a, child, protect) == [of |-> a.of \o child.of, protect |-> protect]
ShardCount(j) == Len(ShardsOf[j])

Fold(j, k) ==
  IF k = 1 THEN ShardsOf[j][1]
  ELSE [of |-> [i \in 1 .. k |-> ShardsOf[j][i].of[1]], protect |-> JoinOf[j]]

Result(j) ==
  LET last == Fold(j, ShardCount(j))
  IN  [last EXCEPT !.protect = OutputOf[j]]

Init ==
  /\ objects = {}
  /\ volatile = {}
  /\ progress = [j \in Jobs |-> None]
  /\ onDisk = [j \in Jobs |-> {None}]
  /\ manifests = [j \in Jobs |-> None]
  /\ volatileManifests = {}
  /\ pc = "idle"
  /\ after = "idle"
  /\ job \in Jobs
  /\ next = 0
  /\ folds = <<>>
  /\ accumulator = None
  /\ acknowledged = {}
  /\ trusted = {}
  /\ environment \in Environments
  /\ faults = 0

Goto(step) == pc' = step

\* The call ends, with a commit or with an error.
Return ==
  /\ Goto("idle")
  /\ UNCHANGED local

-----------------------------------------------------------------------------
\* Mutant of Put: the directory is not synced after the rename.
PutUnsynced(artifact, step) ==
  /\ objects' = objects \cup {artifact}
  /\ volatile' = IF artifact \in objects THEN volatile ELSE volatile \cup {artifact}
  /\ Goto(step)
  /\ after' = step
  /\ UNCHANGED <<progress, onDisk, manifests, volatileManifests>>

\* put: an object that is visible is taken as it is; a new one is written
\* and renamed into place, and its directory entry is still to be synced.
Put(artifact, step) ==
  /\ IF artifact \in objects
     THEN /\ Goto(step)
          /\ UNCHANGED <<objects, volatile>>
     ELSE /\ objects' = objects \cup {artifact}
          /\ volatile' = volatile \cup {artifact}
          /\ Goto("sync_object")
  /\ after' = step
  /\ UNCHANGED <<progress, onDisk, manifests, volatileManifests>>

\* The artifact that the put under way stores.
BeingPut == IF after = "put_shards" THEN ShardsOf[job][next] ELSE accumulator

\* The directory of the new object is synced.
SyncObject ==
  /\ pc = "sync_object"
  /\ volatile' = volatile \ {BeingPut}
  /\ Goto(after)
  /\ UNCHANGED <<objects, progress, onDisk, manifests, volatileManifests,
                 local, returned, world>>

-----------------------------------------------------------------------------
\* A caller asks for a job, with the shards' bytes (commit) or without
\* (commit_stored).
Begin(j, step) ==
  /\ pc = "idle"
  /\ job' = j
  /\ next' = 0
  /\ folds' = <<>>
  /\ accumulator' = None
  /\ Goto(step)
  /\ UNCHANGED <<disk, after, returned, world>>

Commit(j)       == Begin(j, "put_shards")
CommitStored(j) == Begin(j, "prepare")

\* commit stores the shards first.
PutShard ==
  /\ pc = "put_shards"
  /\ next < ShardCount(job)
  /\ next' = next + 1
  /\ Put(ShardsOf[job][next'], "put_shards")
  /\ UNCHANGED <<job, folds, accumulator, returned, world>>

ShardsPut ==
  /\ pc = "put_shards"
  /\ next = ShardCount(job)
  /\ Goto("prepare")
  /\ UNCHANGED <<disk, local, returned, world>>

\* The first shard is read; the call fails if it is not stored.
Prepare ==
  /\ pc = "prepare"
  /\ IF ShardsOf[job][1] \in objects
     THEN /\ accumulator' = ShardsOf[job][1]
          /\ Goto("read_manifest")
          /\ UNCHANGED <<after, job, next, folds>>
     ELSE Return
  /\ UNCHANGED <<disk, returned, world>>

\* Mutant of LoadCommit: a manifest that is visible counts as durable.
LoadVisible ==
  /\ pc = "read_manifest"
  /\ manifests[job] # None
  /\ acknowledged' = IF manifests[job].result \in objects
                     THEN acknowledged \cup {job} ELSE acknowledged
  /\ Return
  /\ UNCHANGED <<disk, trusted, world>>

\* A published job is loaded: the call returns its result, or fails if the
\* result is not stored.  Nothing is synced: a manifest that an earlier call
\* left between its rename and its sync is returned as it is.
LoadCommit ==
  /\ pc = "read_manifest"
  /\ manifests[job] # None
  /\ LET commit == IF manifests[job].result \in objects THEN {job} ELSE {}
     IN  /\ acknowledged' = acknowledged \cup (commit \ volatileManifests)
         /\ trusted' = trusted \cup (commit \cap volatileManifests)
  /\ Return
  /\ UNCHANGED <<disk, world>>

NoManifest ==
  /\ pc = "read_manifest"
  /\ manifests[job] = None
  /\ Goto("resume")
  /\ UNCHANGED <<disk, local, returned, world>>

\* Mutant of Resume: the last fold is made again on top of itself.
ResumeOneBack ==
  /\ pc = "resume"
  /\ progress[job] # None
  /\ IF progress[job][Len(progress[job])] \in objects
     THEN /\ folds' = progress[job]
          /\ accumulator' = progress[job][Len(progress[job])]
          /\ next' = Len(progress[job]) - 1
          /\ Goto("fold")
          /\ UNCHANGED <<after, job>>
     ELSE Return
  /\ UNCHANGED <<disk, returned, world>>

\* Mutant of Resume: a job whose last fold is done has an invalid prefix.
ResumeUnlessDone ==
  /\ pc = "resume"
  /\ progress[job] # None
  /\ IF /\ progress[job][Len(progress[job])] \in objects
        /\ Len(progress[job]) < ShardCount(job)
     THEN /\ folds' = progress[job]
          /\ accumulator' = progress[job][Len(progress[job])]
          /\ next' = Len(progress[job])
          /\ Goto("fold")
          /\ UNCHANGED <<after, job>>
     ELSE Return
  /\ UNCHANGED <<disk, returned, world>>

\* A job with progress goes on from its last fold; the call fails if that
\* fold is not stored.  The progress file holds the folds so far.
Resume ==
  /\ pc = "resume"
  /\ progress[job] # None
  /\ IF progress[job][Len(progress[job])] \in objects
     THEN /\ folds' = progress[job]
          /\ accumulator' = progress[job][Len(progress[job])]
          /\ next' = Len(progress[job])
          /\ Goto("fold")
          /\ UNCHANGED <<after, job>>
     ELSE Return
  /\ UNCHANGED <<disk, returned, world>>

\* A job without progress starts from its first shard.
Start ==
  /\ pc = "resume"
  /\ progress[job] = None
  /\ folds' = <<accumulator>>
  /\ next' = 1
  /\ Goto("write_progress")
  /\ UNCHANGED <<disk, after, job, accumulator, returned, world>>

-----------------------------------------------------------------------------
\* The progress file is replaced; its directory entry is still to be synced.
WriteProgress ==
  /\ pc = "write_progress"
  /\ progress' = [progress EXCEPT ![job] = folds]
  /\ onDisk' = [onDisk EXCEPT ![job] = @ \cup {folds}]
  /\ Goto("sync_progress")
  /\ UNCHANGED <<objects, volatile, manifests, volatileManifests,
                 local, returned, world>>

\* The directory of the progress files is synced: those of every job.
SyncProgress ==
  /\ pc = "sync_progress"
  /\ onDisk' = [j \in Jobs |-> {progress[j]}]
  /\ Goto("fold")
  /\ UNCHANGED <<objects, volatile, progress, manifests, volatileManifests,
                 local, returned, world>>

\* The next shard is read, composed and the fold stored; the call fails if
\* the shard is not stored.
ComputeFold ==
  /\ pc = "fold"
  /\ next < ShardCount(job)
  /\ LET child == ShardsOf[job][next + 1]
         fold  == Compose(accumulator, child, JoinOf[job])
     IN  IF child \in objects
         THEN /\ accumulator' = fold
              /\ folds' = Append(folds, fold)
              /\ next' = next + 1
              /\ Put(fold, "write_progress")
              /\ UNCHANGED job
         ELSE Return /\ UNCHANGED disk
  /\ UNCHANGED <<returned, world>>

\* Mutant of FinishProtection: the result is not stored.
FinishUnstored ==
  /\ pc = "fold"
  /\ next = ShardCount(job)
  /\ accumulator' = [accumulator EXCEPT !.protect = OutputOf[job]]
  /\ Goto("publish")
  /\ UNCHANGED <<disk, after, job, next, folds, returned, world>>

\* After the last fold the result keeps only the output's protection.
FinishProtection ==
  /\ pc = "fold"
  /\ next = ShardCount(job)
  /\ IF accumulator.protect = OutputOf[job]
     THEN /\ Goto("publish")
          /\ UNCHANGED <<disk, after, accumulator>>
     ELSE /\ accumulator' = [accumulator EXCEPT !.protect = OutputOf[job]]
          /\ Put(accumulator', "publish")
  /\ UNCHANGED <<job, next, folds, returned, world>>

\* Mutant of Publish: the call returns before the directory is synced.
PublishEarly ==
  /\ pc = "publish"
  /\ manifests' = [manifests EXCEPT
                     ![job] = [shards |-> ShardsOf[job], folds |-> folds,
                               result |-> accumulator]]
  /\ volatileManifests' = volatileManifests \cup {job}
  /\ acknowledged' = acknowledged \cup {job}
  /\ Goto("sync_manifest")
  /\ UNCHANGED <<objects, volatile, progress, onDisk, local, trusted, world>>

\* The manifest is written; its directory entry is still to be synced.
Publish ==
  /\ pc = "publish"
  /\ manifests' = [manifests EXCEPT
                     ![job] = [shards |-> ShardsOf[job], folds |-> folds,
                               result |-> accumulator]]
  /\ volatileManifests' = volatileManifests \cup {job}
  /\ Goto("sync_manifest")
  /\ UNCHANGED <<objects, volatile, progress, onDisk, local, returned, world>>

\* The directory of the manifests is synced and the call returns a commit.
SyncManifest ==
  /\ pc = "sync_manifest"
  /\ volatileManifests' = {}
  /\ acknowledged' = acknowledged \cup {job}
  /\ Return
  /\ UNCHANGED <<objects, volatile, progress, onDisk, manifests, trusted, world>>

-----------------------------------------------------------------------------
\* The coordinator is killed, or a call to the file system fails and the
\* error is returned: what is visible stays visible.
Kill ==
  /\ "kill" \in environment
  /\ faults < MaxFaults
  /\ pc # "idle"
  /\ faults' = faults + 1
  /\ Return
  /\ UNCHANGED <<disk, returned, environment>>

\* The power fails: of the entries that are not synced any may be lost, and
\* what is left is on the disk.
PowerLoss ==
  /\ "power" \in environment
  /\ faults < MaxFaults
  /\ faults' = faults + 1
  /\ objects' \in {objects \ lost : lost \in SUBSET volatile}
  /\ volatile' = {}
  /\ progress' \in {found \in [Jobs -> UNION {onDisk[j] : j \in Jobs}] :
                      \A j \in Jobs : found[j] \in onDisk[j]}
  /\ onDisk' = [j \in Jobs |-> {progress'[j]}]
  /\ \E lost \in SUBSET volatileManifests :
       manifests' = [j \in Jobs |-> IF j \in lost THEN None ELSE manifests[j]]
  /\ volatileManifests' = {}
  /\ Return
  /\ UNCHANGED <<returned, environment>>

\* The steps of a call.
Step ==
  \/ SyncObject \/ PutShard \/ ShardsPut
  \/ Prepare \/ LoadCommit \/ NoManifest \/ Resume \/ Start
  \/ WriteProgress \/ SyncProgress \/ ComputeFold \/ FinishProtection
  \/ Publish \/ SyncManifest

Next ==
  \/ \E j \in Jobs : Commit(j) \/ CommitStored(j)
  \/ Step
  \/ Kill
  \/ PowerLoss

Spec == Init /\ [][Next]_vars

\* A call that runs goes on, and the callers retry every job with commit.
FairSpec ==
  /\ Spec
  /\ WF_vars(Step)
  /\ \A j \in Jobs : SF_vars(Commit(j))

-----------------------------------------------------------------------------
\* Kills (with failed calls) and losses of power do not meet in this run.
FaultsApart == environment # {"kill", "power"}

(* What a progress file names can be read: a resumed call never finds its   *)
(* accumulator missing (store.rs, compute_one_fold stores a fold before it  *)
(* records it).  Where both kinds of fault meet, a fold that put found      *)
(* visible was perhaps never synced.                                        *)
ProgressUsable ==
  FaultsApart => \A j \in Jobs : progress[j] # None =>
    \A i \in 1 .. Len(progress[j]) : progress[j][i] \in objects

(* A visible manifest is complete: the shards, the folds and the result it  *)
(* names are stored (store.rs, publish_commit comes last); unless both      *)
(* kinds of fault meet.                                                     *)
ManifestComplete ==
  FaultsApart => \A j \in Jobs : manifests[j] # None =>
    /\ \A i \in 1 .. ShardCount(j) :
         {manifests[j].shards[i], manifests[j].folds[i]} \subseteq objects
    /\ manifests[j].result \in objects

(* However often a job was interrupted and resumed, its manifest is the one *)
(* of an uninterrupted run: every shard folded once, in order               *)
(* (store.rs:78-79, resume_or_start).                                       *)
ResumedAsFresh ==
  \A j \in Jobs : manifests[j] # None =>
    /\ manifests[j].folds = [k \in 1 .. ShardCount(j) |-> Fold(j, k)]
    /\ manifests[j].result = Result(j)

(* A commit that was returned to a caller stays, under any mix of kills,    *)
(* failed calls and losses of power, if the call synced its manifest        *)
(* (publish_commit) or found it synced.  One that load_commit returned for  *)
(* a manifest that no call had synced can be lost again, but only where     *)
(* both kinds of fault meet: a kill, or a failed sync, after the rename,    *)
(* then a retry that returns the commit, then a loss of power.              *)
AcknowledgedStays ==
  /\ \A j \in acknowledged : manifests[j] # None
  /\ FaultsApart => \A j \in trusted : manifests[j] # None

(* Every job is committed in the end when its caller retries and the faults *)
(* stop: no fault leaves a job that cannot be resumed, unless both kinds    *)
(* meet.                                                                    *)
EventuallyCommitted ==
  FaultsApart => \A j \in Jobs : <>[](manifests[j] # None)

(* The module's documentation (distributed.rs:5): "Each fold is durable     *)
(* before the next one starts."                                             *)
FoldsDurable ==
  pc = "fold" /\ next < ShardCount(job) =>
    \A i \in 2 .. Len(folds) : folds[i] \in objects \ volatile
=============================================================================
