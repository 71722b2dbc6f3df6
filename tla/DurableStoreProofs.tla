-------------------------- MODULE DurableStoreProofs --------------------------
(***************************************************************************)
(* Proofs about the durable store, for every set of jobs of any length, any *)
(* number of faults and any interleaving of calls, kills and power losses:  *)
(* what is published is what an uninterrupted run publishes, and what was    *)
(* returned after a sync stays published; and, as long as kills and power   *)
(* losses do not meet, what is published or recorded stays readable.        *)
(***************************************************************************)
EXTENDS DurableStore, TLAPS

Steps == {"idle", "put_shards", "prepare", "read_manifest", "resume", "write_progress",
          "sync_progress", "fold", "publish", "sync_manifest"}

Prefix(j, k) == [i \in 1 .. k |-> Fold(j, i)]

Prefixes(j) == {None} \cup {Prefix(j, k) : k \in 1 .. ShardCount(j)}

Manifest(j) == [shards |-> ShardsOf[j], folds |-> Prefix(j, ShardCount(j)), result |-> Result(j)]

\* The step the call is at, or goes to once an object is synced.
At == IF pc = "sync_object" THEN after ELSE pc

Folding == At \in {"write_progress", "sync_progress", "fold"}
Ending  == At \in {"publish", "sync_manifest"}

\* What the disk may hold of a job: a prefix of its folds, and its manifest.
DiskFresh ==
  /\ progress \in [Jobs -> UNION {Prefixes(j) : j \in Jobs}]
  /\ \A j \in Jobs : progress[j] \in Prefixes(j)
  /\ onDisk \in [Jobs -> SUBSET UNION {Prefixes(j) : j \in Jobs}]
  /\ \A j \in Jobs : onDisk[j] \subseteq Prefixes(j)
  /\ manifests \in [Jobs -> {None} \cup {Manifest(j) : j \in Jobs}]
  /\ \A j \in Jobs : manifests[j] \in {None, Manifest(j)}

\* A call that folds holds the prefix it has come to.
CallFresh ==
  /\ pc \in Steps \cup {"sync_object"} /\ after \in Steps
  /\ pc = "sync_object" => after \in {"put_shards", "write_progress", "publish"}
  /\ job \in Jobs
  /\ pc \in {"read_manifest", "resume"} => accumulator = ShardsOf[job][1]
  /\ At = "put_shards" => next \in 0 .. ShardCount(job)
  /\ Folding => /\ next \in 1 .. ShardCount(job)
                /\ folds = Prefix(job, next)
                /\ accumulator = Fold(job, next)
  /\ Ending => folds = Prefix(job, ShardCount(job)) /\ accumulator = Result(job)

FreshInv == DiskFresh /\ CallFresh

\* What no fault of this run can take.
Safe == IF "power" \in environment THEN objects \ volatile ELSE objects

Readable(j, f) == \A i \in DOMAIN f : ShardsOf[j][i] \in Safe /\ f[i] \in Safe

\* The folds that the call has stored for good.
Settled == IF pc = "sync_object" /\ after = "write_progress" THEN Prefix(job, next - 1) ELSE folds

Bound == {"write_progress", "sync_progress", "fold", "publish", "sync_manifest"}

\* Where the power may fail, an entry that is not synced is the one the call
\* is about to sync.
VolatileInv ==
  "power" \in environment =>
    /\ volatile \subseteq (IF pc = "sync_object" THEN {BeingPut} ELSE {})
    /\ volatileManifests \subseteq (IF pc = "sync_manifest" THEN {job} ELSE {})
    /\ \A j \in Jobs : onDisk[j] = {progress[j]} \/ (pc = "sync_progress" /\ j = job)

\* What is recorded or published can be read after any fault.
DiskStored ==
  /\ \A j \in Jobs : \A f \in onDisk[j] \cup {progress[j]} : Readable(j, f)
  /\ \A j \in Jobs : manifests[j] # None =>
       Readable(j, Prefix(j, ShardCount(j))) /\ Result(j) \in Safe

\* So can what a call holds.
CallStored ==
  /\ pc \in {"read_manifest", "resume"} => accumulator \in Safe
  /\ At \in Bound => Readable(job, Settled) /\ ShardsOf[job][next] \in Safe
  /\ pc \in Bound => accumulator \in Safe
  /\ pc = "sync_object" => BeingPut \in objects

\* A commit that was returned on trust is published, and there is none where
\* the power may fail.
TrustedInv ==
  /\ \A j \in trusted : j \in Jobs /\ manifests[j] # None
  /\ "power" \in environment => trusted = {}

DurableInv ==
  environment \in Environments /\ VolatileInv /\ DiskStored /\ CallStored /\ TrustedInv

\* A commit that was returned after a sync is published and on the disk; a call
\* that folds has found no manifest.
ReturnedInv ==
  /\ \A j \in acknowledged : j \in Jobs /\ manifests[j] # None /\ j \notin volatileManifests
  /\ At \in {"resume", "write_progress", "sync_progress", "fold", "publish"} => manifests[job] = None
  /\ pc = "sync_manifest" => manifests[job] # None

-----------------------------------------------------------------------------
(* A job has a shard; a fold composed with the next shard is the next fold, *)
(* which extends the prefix (compute_one_fold); and a last fold with the    *)
(* output's protection is the result (finish_protection).                   *)

\* What the fold of the first shards is, and how a prefix of the folds grows
\* by one.
LEMMA FoldFacts ==
  ASSUME NEW j \in Jobs
  PROVE  /\ ShardCount(j) \in Nat \ {0}
         /\ Fold(j, 1) = ShardsOf[j][1]
         /\ Prefix(j, 1) = <<Fold(j, 1)>>
         /\ \A k \in 1 .. ShardCount(j) :
              /\ Len(Prefix(j, k)) = k /\ Prefix(j, k)[k] = Fold(j, k)
              /\ Prefix(j, k) # None
         /\ \A k \in 1 .. ShardCount(j) - 1 :
              /\ Compose(Fold(j, k), ShardsOf[j][k + 1], JoinOf[j]) = Fold(j, k + 1)
              /\ Append(Prefix(j, k), Fold(j, k + 1)) = Prefix(j, k + 1)
         /\ Fold(j, ShardCount(j)).protect = OutputOf[j]
              => Fold(j, ShardCount(j)) = Result(j)
<1> DEFINE N == ShardCount(j)
<1>1. /\ N \in Nat \ {0}
      /\ \A i \in 1 .. N : ShardsOf[j][i] = [of |-> <<ShardsOf[j][i].of[1]>>,
                                             protect |-> ShardsOf[j][i].protect]
  BY StoreAssumption DEF ShardCount, IsShard
<1>2. Fold(j, 1) = ShardsOf[j][1]
  BY DEF Fold
<1>3. ASSUME NEW k \in 1 .. N
      PROVE  /\ Len(Prefix(j, k)) = k /\ Prefix(j, k)[k] = Fold(j, k)
             /\ Prefix(j, k) # None
  <2>1. DOMAIN Prefix(j, k) = 1 .. k /\ Prefix(j, k)[k] = Fold(j, k) /\ k \in Nat
    BY <1>1 DEF Prefix
  <2>2. Prefix(j, k) \in Seq({Fold(j, i) : i \in 1 .. k})
    BY <2>1 DEF Prefix
  <2> QED BY <2>1, <2>2 DEF None
<1>4. Prefix(j, 1) = <<Fold(j, 1)>>
  BY DEF Prefix
<1>5. ASSUME NEW k \in 1 .. N
      PROVE  Fold(j, k) = [of |-> [i \in 1 .. k |-> ShardsOf[j][i].of[1]],
                           protect |-> IF k = 1 THEN ShardsOf[j][1].protect ELSE JoinOf[j]]
  <2>1. CASE k = 1
    <3>1. <<ShardsOf[j][1].of[1]>> = [i \in 1 .. 1 |-> ShardsOf[j][i].of[1]]
      OBVIOUS
    <3> QED BY <1>1, <1>2, <2>1, <3>1
  <2>2. CASE k # 1
    BY <2>2 DEF Fold
  <2> QED BY <2>1, <2>2
<1>6. ASSUME NEW k \in 1 .. N - 1
      PROVE  /\ Compose(Fold(j, k), ShardsOf[j][k + 1], JoinOf[j]) = Fold(j, k + 1)
             /\ Append(Prefix(j, k), Fold(j, k + 1)) = Prefix(j, k + 1)
  <2> DEFINE X == {ShardsOf[j][i].of[1] : i \in 1 .. N}
             s(n) == [i \in 1 .. n |-> ShardsOf[j][i].of[1]]
  <2>1. k \in 1 .. N /\ k + 1 \in 1 .. N /\ k + 1 # 1 /\ k \in Nat
    BY <1>1
  <2>2. s(k) \in Seq(X) /\ Len(s(k)) = k
    <3>1. 1 .. k \subseteq 1 .. N
      BY <1>1, <2>1
    <3>2. \A i \in 1 .. k : s(k)[i] \in X
      BY <3>1
    <3>3. s(k) \in [1 .. k -> X]
      BY <3>2
    <3> HIDE DEF X, s
    <3> QED BY <2>1, <3>3
  <2>3. s(k) \o <<ShardsOf[j][k + 1].of[1]>> = s(k + 1)
    BY <2>1, <2>2
  <2>4. Compose(Fold(j, k), ShardsOf[j][k + 1], JoinOf[j])
          = [of |-> s(k) \o ShardsOf[j][k + 1].of, protect |-> JoinOf[j]]
    <3>1. Fold(j, k).of = s(k)
      BY <1>5, <2>1
    <3> HIDE DEF s
    <3> QED BY <3>1 DEF Compose
  <2>5. ShardsOf[j][k + 1].of = <<ShardsOf[j][k + 1].of[1]>>
    <3> DEFINE one == ShardsOf[j][k + 1]
    <3>1. PICK y : one = [of |-> <<one.of[1]>>, protect |-> y]
      BY <1>1, <2>1
    <3> HIDE DEF one
    <3>2. [of |-> <<one.of[1]>>, protect |-> y].of = <<one.of[1]>>
      OBVIOUS
    <3>3. one.of = <<one.of[1]>>
      BY <3>1, <3>2, Zenon
    <3> QED BY <3>3 DEF one
  <2>6. Fold(j, k + 1) = [of |-> s(k + 1), protect |-> JoinOf[j]]
    BY <1>5, <2>1
  <2>7. Prefix(j, k) \in Seq({Fold(j, i) : i \in 1 .. N}) /\ Len(Prefix(j, k)) = k
    BY <1>1, <2>1 DEF Prefix
  <2>8. Append(Prefix(j, k), Fold(j, k + 1)) = Prefix(j, k + 1)
    BY <2>1, <2>7 DEF Prefix
  <2> QED BY <2>3, <2>4, <2>5, <2>6, <2>8
<1>7. Fold(j, N).protect = OutputOf[j] => Fold(j, N) = Result(j)
  <2>1. N \in 1 .. N
    BY <1>1
  <2> QED BY <1>5, <2>1 DEF Result
<1> QED BY <1>1, <1>2, <1>3, <1>4, <1>6, <1>7

-----------------------------------------------------------------------------
(* However a call comes to a fold, it has the folds of an uninterrupted run, *)
(* and so have its progress file and its manifest (resume_or_start).        *)

\* In every state of every run, kills and losses of power included, the folds
\* of a call, of a progress file and of a manifest are the first folds of its job.
THEOREM FreshInvariant == Spec => []FreshInv
<1> USE DEF Steps, At, Folding, Ending
<1>1. Init => FreshInv
  <2> SUFFICES ASSUME Init PROVE FreshInv
    OBVIOUS
  <2>1. DiskFresh
    BY DEF Init, DiskFresh, Prefixes
  <2>2. CallFresh
    BY DEF Init, CallFresh
  <2> QED BY <2>1, <2>2 DEF FreshInv
<1>2. FreshInv /\ [Next]_vars => FreshInv'
  <2> SUFFICES ASSUME FreshInv, [Next]_vars PROVE FreshInv'
    OBVIOUS
  <2> USE DEF local, disk, world, returned, Return, Goto, Put
  <2>1. DiskFresh /\ CallFresh
    BY DEF FreshInv
  <2>2. job \in Jobs /\ ShardCount(job) \in Nat \ {0}
    BY <2>1, FoldFacts DEF CallFresh
  <2>3. ASSUME UNCHANGED <<progress, onDisk, manifests>> PROVE DiskFresh'
    BY <2>1, <2>3 DEF DiskFresh
  <2>4. CASE UNCHANGED vars
    BY <2>1, <2>4 DEF vars, FreshInv, DiskFresh, CallFresh
  <2>5. ASSUME NEW j \in Jobs, Commit(j) \/ CommitStored(j) PROVE FreshInv'
    <3>1. ShardCount(j) \in Nat
      BY FoldFacts
    <3>2. CallFresh'
      BY <2>1, <2>5, <3>1 DEF CallFresh, Commit, CommitStored, Begin
    <3> QED BY <2>3, <2>5, <3>2 DEF FreshInv, Commit, CommitStored, Begin
  <2>6. ASSUME SyncObject PROVE FreshInv'
    <3>1. CallFresh'
      BY <2>1, <2>6 DEF CallFresh, SyncObject
    <3> QED BY <2>3, <2>6, <3>1 DEF FreshInv, SyncObject
  <2>7. ASSUME PutShard PROVE FreshInv'
    <3>1. CallFresh'
      BY <2>1, <2>2, <2>7 DEF CallFresh, PutShard
    <3> QED BY <2>3, <2>7, <3>1 DEF FreshInv, PutShard
  <2>8. ASSUME ShardsPut \/ Prepare \/ LoadCommit \/ NoManifest PROVE FreshInv'
    <3>1. CallFresh'
      BY <2>1, <2>8 DEF CallFresh, ShardsPut, Prepare, LoadCommit, NoManifest
    <3> QED BY <2>3, <2>8, <3>1 DEF FreshInv, ShardsPut, Prepare, LoadCommit, NoManifest
  <2>9. ASSUME Resume PROVE FreshInv'
    <3>1. PICK k \in 1 .. ShardCount(job) : progress[job] = Prefix(job, k)
      BY <2>1, <2>2, <2>9 DEF DiskFresh, Prefixes, Resume
    <3>2. Len(progress[job]) = k /\ progress[job][k] = Fold(job, k)
      BY <2>2, <3>1, FoldFacts
    <3>3. CallFresh'
      BY <2>1, <2>2, <2>9, <3>1, <3>2 DEF CallFresh, Resume
    <3> QED BY <2>3, <2>9, <3>3 DEF FreshInv, Resume
  <2>10. ASSUME Start PROVE FreshInv'
    <3>1. accumulator = Fold(job, 1) /\ <<accumulator>> = Prefix(job, 1)
      BY <2>1, <2>2, <2>10, FoldFacts DEF CallFresh, Start
    <3>2. CallFresh'
      BY <2>1, <2>2, <2>10, <3>1 DEF CallFresh, Start
    <3> QED BY <2>3, <2>10, <3>2 DEF FreshInv, Start
  <2>11. ASSUME WriteProgress PROVE FreshInv'
    <3>1. folds \in Prefixes(job)
      BY <2>1, <2>11 DEF CallFresh, WriteProgress, Prefixes
    <3>2. DiskFresh'
      BY <2>1, <2>2, <2>11, <3>1 DEF DiskFresh, WriteProgress
    <3>3. CallFresh'
      BY <2>1, <2>11 DEF CallFresh, WriteProgress
    <3> QED BY <3>2, <3>3 DEF FreshInv
  <2>12. ASSUME SyncProgress PROVE FreshInv'
    <3>1. DiskFresh'
      BY <2>1, <2>12 DEF DiskFresh, SyncProgress
    <3>2. CallFresh'
      BY <2>1, <2>12 DEF CallFresh, SyncProgress
    <3> QED BY <3>1, <3>2 DEF FreshInv
  <2>13. ASSUME ComputeFold PROVE FreshInv'
    <3>1. /\ next \in 1 .. ShardCount(job) - 1 /\ next + 1 \in 1 .. ShardCount(job)
          /\ folds = Prefix(job, next) /\ accumulator = Fold(job, next)
      BY <2>1, <2>2, <2>13 DEF CallFresh, ComputeFold
    <3>2. /\ Compose(accumulator, ShardsOf[job][next + 1], JoinOf[job]) = Fold(job, next + 1)
          /\ Append(folds, Fold(job, next + 1)) = Prefix(job, next + 1)
      BY <2>2, <3>1, FoldFacts
    <3>3. CallFresh'
      BY <2>1, <2>13, <3>1, <3>2 DEF CallFresh, ComputeFold
    <3> QED BY <2>3, <2>13, <3>3 DEF FreshInv, ComputeFold
  <2>14. ASSUME FinishProtection PROVE FreshInv'
    <3>1. folds = Prefix(job, ShardCount(job)) /\ accumulator = Fold(job, ShardCount(job))
      BY <2>1, <2>14 DEF CallFresh, FinishProtection
    <3>2. accumulator.protect = OutputOf[job] => accumulator = Result(job)
      BY <2>2, <3>1, FoldFacts
    <3>3. [accumulator EXCEPT !.protect = OutputOf[job]] = Result(job)
      BY <3>1 DEF Result
    <3>4. CallFresh'
      BY <2>1, <2>14, <3>1, <3>2, <3>3 DEF CallFresh, FinishProtection
    <3> QED BY <2>3, <2>14, <3>4 DEF FreshInv, FinishProtection
  <2>15. ASSUME Publish PROVE FreshInv'
    <3>1. [shards |-> ShardsOf[job], folds |-> folds, result |-> accumulator] = Manifest(job)
      BY <2>1, <2>15 DEF CallFresh, Publish, Manifest
    <3>2. DiskFresh'
      BY <2>1, <2>2, <2>15, <3>1 DEF DiskFresh, Publish
    <3>3. CallFresh'
      BY <2>1, <2>15 DEF CallFresh, Publish
    <3> QED BY <3>2, <3>3 DEF FreshInv
  <2>16. ASSUME SyncManifest \/ Kill PROVE FreshInv'
    <3>1. CallFresh'
      BY <2>1, <2>16 DEF CallFresh, SyncManifest, Kill
    <3> QED BY <2>3, <2>16, <3>1 DEF FreshInv, SyncManifest, Kill
  <2>17. ASSUME PowerLoss PROVE FreshInv'
    <3>1. \A j \in Jobs : progress'[j] \in onDisk[j]
      BY <2>17 DEF PowerLoss
    <3>2. progress' \in [Jobs -> UNION {Prefixes(j) : j \in Jobs}]
      BY <2>1, <2>17, <3>1 DEF PowerLoss, DiskFresh
    <3>3. \A j \in Jobs : progress'[j] \in Prefixes(j)
      BY <2>1, <3>1 DEF DiskFresh
    <3>4. onDisk' = [j \in Jobs |-> {progress'[j]}]
      BY <2>17 DEF PowerLoss
    <3>5. /\ onDisk' \in [Jobs -> SUBSET UNION {Prefixes(j) : j \in Jobs}]
          /\ \A j \in Jobs : onDisk'[j] \subseteq Prefixes(j)
      BY <3>3, <3>4
    <3>6. /\ manifests' \in [Jobs -> {None} \cup {Manifest(j) : j \in Jobs}]
          /\ \A j \in Jobs : manifests'[j] \in {None, Manifest(j)}
      BY <2>1, <2>17 DEF PowerLoss, DiskFresh
    <3>7. CallFresh'
      BY <2>1, <2>17 DEF CallFresh, PowerLoss
    <3> QED BY <3>2, <3>3, <3>5, <3>6, <3>7 DEF FreshInv, DiskFresh
  <2> QED
    BY <2>4, <2>5, <2>6, <2>7, <2>8, <2>9, <2>10, <2>11, <2>12, <2>13, <2>14, <2>15,
       <2>16, <2>17 DEF Next, Step
<1> QED BY <1>1, <1>2, PTL DEF Spec

(* However often a job was interrupted and resumed, by faults of any kind,  *)
(* its manifest is that of an uninterrupted run (resume_or_start).          *)
THEOREM ResumedIsFresh == Spec => []ResumedAsFresh
<1>1. FreshInv => ResumedAsFresh
  <2> SUFFICES ASSUME FreshInv, NEW j \in Jobs, manifests[j] # None
               PROVE  /\ manifests[j].folds = [k \in 1 .. ShardCount(j) |-> Fold(j, k)]
                      /\ manifests[j].result = Result(j)
    BY DEF ResumedAsFresh
  <2>1. manifests[j] = Manifest(j)
    BY DEF FreshInv, DiskFresh
  <2> QED BY <2>1 DEF Manifest, Prefix
<1> QED BY <1>1, FreshInvariant, PTL

-----------------------------------------------------------------------------
(* As long as kills and power losses do not meet, DurableInv holds: what a  *)
(* call, a progress file or a manifest names is stored where no fault of    *)
(* the run can take it (put, write_progress, publish_commit).  With both,   *)
(* an object that a killed call left unsynced is taken by the next one as   *)
(* it is.                                                                   *)
THEOREM DurableInvariant == Spec => [](FaultsApart => DurableInv)
<1> USE DEF At, Bound
<1>1. Init => DurableInv
  <2> SUFFICES ASSUME Init PROVE DurableInv
    OBVIOUS
  <2>1. VolatileInv /\ TrustedInv
    BY DEF Init, VolatileInv, TrustedInv
  <2>2. DiskStored /\ CallStored
    BY DEF Init, DiskStored, CallStored, Readable, None
  <2> QED BY <2>1, <2>2 DEF Init, DurableInv
<1>2. FreshInv /\ FreshInv' /\ (FaultsApart => DurableInv) /\ [Next]_vars
        => (FaultsApart => DurableInv)'
  <2> SUFFICES ASSUME FreshInv, FreshInv', FaultsApart => DurableInv, [Next]_vars, FaultsApart'
               PROVE DurableInv'
    OBVIOUS
  <2> USE DEF local, disk, world, returned, Return, Goto, Put
  <2>2. environment' = environment
    BY DEF vars, Next, Step, Commit, CommitStored, Begin, SyncObject, PutShard, ShardsPut, Prepare,
           LoadCommit, NoManifest, Resume, Start, WriteProgress, SyncProgress, ComputeFold,
           FinishProtection, Publish, SyncManifest, Kill, PowerLoss
  <2>1. /\ DiskFresh /\ CallFresh /\ DiskFresh' /\ CallFresh'
        /\ VolatileInv /\ DiskStored /\ CallStored /\ TrustedInv /\ environment \in Environments
        /\ job \in Jobs
    BY <2>2 DEF FreshInv, DurableInv, CallFresh, FaultsApart
  <2>3. ~("kill" \in environment /\ "power" \in environment)
    <3>1. environment \subseteq {"kill", "power"} /\ environment # {"kill", "power"}
      BY <2>1, <2>2, StoreAssumption DEF FaultsApart
    <3> QED BY <3>1
  <2>4. VolatileInv'
    <3> SUFFICES ASSUME "power" \in environment PROVE VolatileInv'
      BY <2>2 DEF VolatileInv
    <3>1. /\ volatile \subseteq (IF pc = "sync_object" THEN {BeingPut} ELSE {})
          /\ volatileManifests \subseteq (IF pc = "sync_manifest" THEN {job} ELSE {})
          /\ \A j \in Jobs : onDisk[j] = {progress[j]} \/ (pc = "sync_progress" /\ j = job)
      BY <2>1 DEF VolatileInv
    <3>2. CASE UNCHANGED vars
      BY <3>1, <3>2 DEF VolatileInv, vars, BeingPut
    <3>3. ASSUME \/ \E j \in Jobs : Commit(j) \/ CommitStored(j)
                 \/ ShardsPut \/ Prepare \/ LoadCommit \/ NoManifest \/ Resume \/ Start
          PROVE  VolatileInv'
      BY <3>1, <3>3 DEF VolatileInv, Commit, CommitStored, Begin, ShardsPut, Prepare,
                        LoadCommit, NoManifest, Resume, Start
    <3>4. CASE SyncObject
      BY <2>1, <3>1, <3>4 DEF VolatileInv, SyncObject, CallFresh
    <3>5. CASE PutShard
      BY <3>1, <3>5 DEF VolatileInv, PutShard, BeingPut
    <3>6. CASE ComputeFold
      BY <3>1, <3>6 DEF VolatileInv, ComputeFold, BeingPut
    <3>7. CASE FinishProtection
      BY <3>1, <3>7 DEF VolatileInv, FinishProtection, BeingPut
    <3>8. CASE WriteProgress
      BY <2>1, <3>1, <3>8 DEF VolatileInv, WriteProgress, DiskFresh
    <3>9. CASE SyncProgress
      BY <2>1, <3>1, <3>9 DEF VolatileInv, SyncProgress, DiskFresh
    <3>10. CASE Publish \/ SyncManifest
      BY <3>1, <3>10 DEF VolatileInv, Publish, SyncManifest
    <3>11. CASE PowerLoss
      BY <3>1, <3>11 DEF VolatileInv, PowerLoss
    <3>12. ~Kill
      BY <2>3 DEF Kill
    <3> QED BY <3>2, <3>3, <3>4, <3>5, <3>6, <3>7, <3>8, <3>9, <3>10, <3>11, <3>12 DEF Next, Step
  <2>5. Safe \subseteq Safe'
    <3>1. CASE UNCHANGED <<objects, volatile>>
      BY <2>2, <3>1 DEF Safe
    <3>2. CASE \E artifact, step : Put(artifact, step)
      BY <2>2, <3>2 DEF Safe
    <3>3. CASE SyncObject
      BY <2>2, <3>3 DEF Safe, SyncObject
    <3>4. CASE PowerLoss
      BY <2>2, <3>4 DEF Safe, PowerLoss
    <3> QED
      BY <3>1, <3>2, <3>3, <3>4
      DEF vars, Next, Step, Commit, CommitStored, Begin, PutShard, ShardsPut, Prepare,
          LoadCommit, NoManifest, Resume, Start, WriteProgress, SyncProgress, ComputeFold,
          FinishProtection, Publish, SyncManifest, Kill
  <2>6. ASSUME NEW j, NEW f, Readable(j, f) PROVE Readable(j, f)'
    BY <2>5, <2>6 DEF Readable
  <2>7. ASSUME pc # "sync_object" PROVE Safe = objects
    BY <2>1, <2>7 DEF VolatileInv, Safe
  <2>8. DiskStored'
    <3>1. ASSUME UNCHANGED <<progress, onDisk, manifests>> PROVE DiskStored'
      BY <2>1, <2>5, <2>6, <3>1 DEF DiskStored
    <3>2. ASSUME WriteProgress PROVE DiskStored'
      <4>1. Readable(job, folds)
        BY <2>1, <3>2 DEF CallStored, WriteProgress, Settled
      <4>2. \A j \in Jobs : \A f \in onDisk'[j] \cup {progress'[j]} :
              f \in onDisk[j] \cup {progress[j]} \/ (j = job /\ f = folds)
        BY <2>1, <3>2 DEF WriteProgress, DiskFresh
      <4>3. \A j \in Jobs : \A f \in onDisk'[j] \cup {progress'[j]} : Readable(j, f)
        BY <2>1, <4>1, <4>2 DEF DiskStored
      <4> QED BY <2>1, <2>5, <2>6, <3>2, <4>3 DEF DiskStored, WriteProgress
    <3>3. ASSUME SyncProgress PROVE DiskStored'
      <4>1. \A j \in Jobs : \A f \in onDisk'[j] \cup {progress'[j]} : Readable(j, f)
        BY <2>1, <3>3 DEF DiskStored, SyncProgress
      <4> QED BY <2>1, <2>5, <2>6, <3>3, <4>1 DEF DiskStored, SyncProgress
    <3>4. ASSUME Publish PROVE DiskStored'
      <4>1. /\ Readable(job, Prefix(job, ShardCount(job))) /\ Result(job) \in Safe
        BY <2>1, <3>4 DEF CallStored, CallFresh, Publish, Settled, Ending
      <4>2. \A j \in Jobs : manifests'[j] # None => j = job \/ manifests[j] # None
        BY <2>1, <3>4 DEF Publish, DiskFresh
      <4>3. \A j \in Jobs : manifests'[j] # None =>
              Readable(j, Prefix(j, ShardCount(j))) /\ Result(j) \in Safe
        BY <2>1, <4>1, <4>2 DEF DiskStored
      <4> QED BY <2>1, <2>5, <2>6, <3>4, <4>3 DEF DiskStored, Publish
    <3>5. ASSUME PowerLoss PROVE DiskStored'
      <4>1. \A j \in Jobs : progress'[j] \in onDisk[j] /\ onDisk'[j] = {progress'[j]}
        BY <3>5 DEF PowerLoss
      <4>2. \A j \in Jobs : \A f \in onDisk'[j] \cup {progress'[j]} : Readable(j, f)
        BY <2>1, <4>1 DEF DiskStored
      <4>3. \A j \in Jobs : manifests'[j] # None => manifests[j] # None
        BY <3>5 DEF PowerLoss
      <4> QED BY <2>1, <2>5, <2>6, <4>2, <4>3 DEF DiskStored
    <3> QED
      BY <3>1, <3>2, <3>3, <3>4, <3>5
      DEF vars, Next, Step, Commit, CommitStored, Begin, SyncObject, PutShard, ShardsPut,
          Prepare, LoadCommit, NoManifest, Resume, Start, ComputeFold,
          FinishProtection, SyncManifest, Kill
  <2>9. CallStored'
    <3>1. CASE UNCHANGED vars
      BY <2>1, <3>1 DEF vars, CallStored, Readable, Safe, Settled, BeingPut
    <3>2. ASSUME \/ \E j \in Jobs : Commit(j) \/ CommitStored(j)
                 \/ ShardsPut \/ LoadCommit \/ SyncManifest \/ Kill \/ PowerLoss
          PROVE  CallStored'
      BY <3>2 DEF CallStored, Commit, CommitStored, Begin, ShardsPut, LoadCommit,
                  SyncManifest, Kill, PowerLoss
    <3>3. ASSUME Prepare \/ NoManifest PROVE CallStored'
      BY <2>1, <2>5, <2>7, <3>3 DEF CallStored, Prepare, NoManifest
    <3>4. ASSUME PutShard PROVE CallStored'
      BY <3>4 DEF CallStored, PutShard, BeingPut
    <3>5. ASSUME SyncObject PROVE CallStored'
      <4>1. CASE after = "put_shards"
        BY <3>5, <4>1 DEF CallStored, SyncObject
      <4>2. BeingPut \in Safe'
        BY <2>1, <2>2, <3>5 DEF CallStored, SyncObject, Safe, VolatileInv
      <4>3. CASE after = "publish"
        <5>1. Readable(job, folds) /\ ShardsOf[job][next] \in Safe /\ BeingPut = accumulator
          BY <2>1, <3>5, <4>3 DEF CallStored, SyncObject, Settled, BeingPut
        <5>2. Readable(job, folds)'
          BY <2>5, <3>5, <5>1 DEF Readable, SyncObject
        <5> QED BY <2>5, <3>5, <4>2, <4>3, <5>1, <5>2 DEF CallStored, SyncObject, Settled
      <4>4. CASE after = "write_progress"
        <5>1. /\ Readable(job, Prefix(job, next - 1)) /\ ShardsOf[job][next] \in Safe
              /\ BeingPut = accumulator
          BY <2>1, <3>5, <4>4 DEF CallStored, SyncObject, Settled, BeingPut
        <5>2. /\ next \in 1 .. ShardCount(job) /\ folds = Prefix(job, next)
              /\ accumulator = Fold(job, next) /\ ShardCount(job) \in Nat
          BY <2>1, <3>5, <4>4, FoldFacts DEF CallFresh, Folding, SyncObject
        <5>3. \A i \in 1 .. next : ShardsOf[job][i] \in Safe' /\ Fold(job, i) \in Safe'
          BY <2>5, <4>2, <5>1, <5>2 DEF Readable, Prefix
        <5>4. Readable(job, folds)'
          BY <3>5, <5>2, <5>3 DEF Readable, Prefix, SyncObject
        <5> QED BY <2>5, <3>5, <4>2, <4>4, <5>1, <5>4 DEF CallStored, SyncObject, Settled
      <4> QED BY <2>1, <3>5, <4>1, <4>3, <4>4 DEF CallFresh, SyncObject
    <3>6. ASSUME Resume PROVE CallStored'
      <4>1. CASE pc' = "idle"
        BY <4>1 DEF CallStored
      <4>2. CASE pc' = "fold"
        <5>1. PICK k \in 1 .. ShardCount(job) : progress[job] = Prefix(job, k)
          BY <2>1, <3>6 DEF DiskFresh, Prefixes, Resume
        <5>2. /\ ShardCount(job) \in Nat /\ Len(progress[job]) = k
              /\ progress[job][k] = Fold(job, k)
          BY <2>1, <5>1, FoldFacts
        <5>3. Readable(job, progress[job]) /\ DOMAIN progress[job] = 1 .. k
          BY <2>1, <5>1 DEF DiskStored, Prefix
        <5>4. ShardsOf[job][k] \in Safe' /\ progress[job][k] \in Safe'
          BY <2>5, <5>2, <5>3 DEF Readable
        <5>5. folds' = progress[job] /\ next' = k /\ accumulator' = progress[job][k] /\ job' = job
          BY <3>6, <4>2, <5>2 DEF Resume
        <5>6. Readable(job, folds)'
          BY <2>5, <5>3, <5>5 DEF Readable
        <5> QED BY <4>2, <5>4, <5>5, <5>6 DEF CallStored, Settled
      <4> QED BY <3>6, <4>1, <4>2 DEF Resume
    <3>7. ASSUME Start PROVE CallStored'
      <4>1. /\ accumulator \in Safe' /\ accumulator = ShardsOf[job][1]
        BY <2>1, <2>5, <3>7 DEF CallStored, CallFresh, Start
      <4>2. /\ pc' = "write_progress" /\ job' = job /\ next' = 1 /\ folds' = <<accumulator>>
            /\ accumulator' = accumulator
        BY <3>7 DEF Start
      <4>3. Readable(job, folds)'
        BY <4>1, <4>2 DEF Readable
      <4> QED BY <4>1, <4>2, <4>3 DEF CallStored, Settled
    <3>8. ASSUME WriteProgress \/ SyncProgress \/ Publish PROVE CallStored'
      <4>1. /\ Readable(job, folds) /\ ShardsOf[job][next] \in Safe /\ accumulator \in Safe
        BY <2>1, <3>8 DEF CallStored, WriteProgress, SyncProgress, Publish, Settled
      <4>2. UNCHANGED <<job, next, folds, accumulator>> /\ pc' \in Bound
        BY <3>8 DEF WriteProgress, SyncProgress, Publish
      <4>3. Readable(job, folds)'
        BY <2>5, <4>1, <4>2 DEF Readable
      <4> QED BY <2>5, <4>1, <4>2, <4>3 DEF CallStored, Settled
    <3>9. ASSUME ComputeFold PROVE CallStored'
      <4>1. CASE pc' = "idle"
        BY <4>1 DEF CallStored
      <4>2. CASE ShardsOf[job][next + 1] \in objects
        <5>1. Safe = objects /\ Readable(job, folds)
          BY <2>1, <2>7, <3>9 DEF CallStored, Settled, ComputeFold
        <5>2. /\ next \in 1 .. ShardCount(job) - 1 /\ ShardCount(job) \in Nat
              /\ folds = Prefix(job, next)
          BY <2>1, <3>9, FoldFacts DEF CallFresh, Folding, ComputeFold
        <5>3. /\ job' = job /\ next' = next + 1 /\ after' = "write_progress"
              /\ folds' = Prefix(job, next + 1) /\ accumulator' = Fold(job, next + 1)
          BY <2>1, <3>9, <4>2 DEF CallFresh, Folding, ComputeFold
        <5>4. ShardsOf[job'][next'] \in Safe'
          BY <2>5, <4>2, <5>1, <5>3
        <5>5. CASE accumulator' \in objects
          <6>1. pc' = "write_progress" /\ accumulator' \in Safe'
            BY <2>5, <3>9, <4>2, <5>1, <5>5 DEF ComputeFold
          <6>2. \A i \in 1 .. next + 1 : ShardsOf[job][i] \in Safe' /\ Fold(job, i) \in Safe'
            BY <2>5, <5>1, <5>2, <5>3, <5>4, <6>1 DEF Readable, Prefix
          <6>3. Readable(job, folds)'
            BY <5>3, <6>2 DEF Readable, Prefix
          <6> QED BY <5>4, <6>1, <6>3 DEF CallStored, Settled
        <5>6. CASE accumulator' \notin objects
          <6>1. pc' = "sync_object" /\ accumulator' \in objects'
            BY <3>9, <4>2, <5>6 DEF ComputeFold
          <6>2. Settled' = folds
            BY <5>2, <5>3, <6>1 DEF Settled
          <6>3. Readable(job, Settled)'
            BY <2>5, <5>1, <5>3, <6>2 DEF Readable
          <6> QED BY <5>3, <5>4, <6>1, <6>3 DEF CallStored, BeingPut
        <5> QED BY <5>5, <5>6
      <4> QED BY <3>9, <4>1, <4>2 DEF ComputeFold
    <3>10. ASSUME FinishProtection PROVE CallStored'
      <4>1. /\ Safe = objects /\ Readable(job, folds) /\ ShardsOf[job][next] \in Safe
            /\ accumulator \in Safe
        BY <2>1, <2>7, <3>10 DEF CallStored, Settled, FinishProtection
      <4>2. /\ UNCHANGED <<job, next, folds>> /\ At' = "publish"
        BY <3>10 DEF FinishProtection
      <4>3. Settled' = folds /\ Readable(job, folds)'
        BY <2>5, <3>10, <4>1, <4>2 DEF Settled, Readable, FinishProtection
      <4>4. pc' \in Bound => accumulator' \in Safe'
        BY <2>5, <3>10, <4>1 DEF FinishProtection
      <4>5. pc' = "sync_object" => BeingPut' \in objects'
        BY <3>10 DEF FinishProtection, BeingPut
      <4> QED BY <2>5, <3>10, <4>1, <4>2, <4>3, <4>4, <4>5 DEF CallStored, FinishProtection
    <3> QED BY <3>1, <3>2, <3>3, <3>4, <3>5, <3>6, <3>7, <3>8, <3>9, <3>10 DEF Next, Step
  <2>10. TrustedInv'
    <3>1. CASE UNCHANGED <<manifests, trusted>>
      BY <2>1, <2>2, <3>1 DEF TrustedInv
    <3>2. CASE LoadCommit
      <4>1. "power" \in environment => volatileManifests = {}
        BY <2>1, <3>2 DEF VolatileInv, LoadCommit
      <4>2. /\ manifests' = manifests /\ manifests[job] # None
            /\ trusted' \subseteq trusted \cup ({job} \cap volatileManifests)
        BY <3>2 DEF LoadCommit
      <4> QED BY <2>1, <2>2, <4>1, <4>2 DEF TrustedInv
    <3>3. CASE Publish
      <4>1. \A j \in Jobs : manifests[j] # None => manifests'[j] # None
        <5>1. manifests'[job] = Manifest(job) /\ Manifest(job) # None
          BY <2>1, <3>3, FoldFacts DEF Publish, DiskFresh, CallFresh, Ending, Manifest, None
        <5> QED BY <2>1, <3>3, <5>1 DEF Publish, DiskFresh
      <4> QED BY <2>1, <2>2, <3>3, <4>1 DEF TrustedInv, Publish
    <3>4. CASE PowerLoss
      BY <2>1, <2>2, <3>4 DEF TrustedInv, PowerLoss
    <3> QED
      BY <3>1, <3>2, <3>3, <3>4
      DEF vars, Next, Step, Commit, CommitStored, Begin, SyncObject, PutShard, ShardsPut, Prepare,
          NoManifest, Resume, Start, WriteProgress, SyncProgress, ComputeFold,
          FinishProtection, SyncManifest, Kill
  <2> QED BY <2>1, <2>2, <2>4, <2>8, <2>9, <2>10 DEF DurableInv
<1> QED BY <1>1, <1>2, FreshInvariant, PTL DEF Spec

(* A visible manifest is complete at every moment: the objects come first   *)
(* and the name after (put, publish_commit).                                *)
THEOREM NamedIsStored == Spec => []ManifestComplete
<1>1. Safe \subseteq objects
  BY DEF Safe
<1>2. FreshInv /\ (FaultsApart => DurableInv) => ManifestComplete
  <2> SUFFICES ASSUME FreshInv, DurableInv, NEW j \in Jobs, manifests[j] # None
               PROVE  /\ \A i \in 1 .. ShardCount(j) :
                           {manifests[j].shards[i], manifests[j].folds[i]} \subseteq objects
                      /\ manifests[j].result \in objects
    BY DEF ManifestComplete
  <2>1. manifests[j] = Manifest(j)
    BY DEF FreshInv, DiskFresh
  <2>2. Readable(j, Prefix(j, ShardCount(j))) /\ Result(j) \in Safe
    BY DEF DurableInv, DiskStored
  <2>3. \A i \in 1 .. ShardCount(j) : /\ ShardsOf[j][i] \in objects
                                      /\ Prefix(j, ShardCount(j))[i] \in objects
    BY <1>1, <2>2 DEF Readable, Prefix
  <2> QED BY <1>1, <2>1, <2>2, <2>3 DEF Manifest
<1> QED BY <1>2, FreshInvariant, DurableInvariant, PTL

(* A progress file names only folds that are in the store, so that a call   *)
(* that finds one can resume from it (compute_one_fold, resume_or_start).   *)
THEOREM ProgressStaysUsable == Spec => []ProgressUsable
<1>1. Safe \subseteq objects
  BY DEF Safe
<1>2. FreshInv /\ (FaultsApart => DurableInv) => ProgressUsable
  <2> SUFFICES ASSUME FreshInv, DurableInv, NEW j \in Jobs, progress[j] # None,
                      NEW i \in 1 .. Len(progress[j])
               PROVE  progress[j][i] \in objects
    BY DEF ProgressUsable
  <2>1. PICK k \in 1 .. ShardCount(j) : progress[j] = Prefix(j, k)
    BY DEF FreshInv, DiskFresh, Prefixes
  <2>2. Len(progress[j]) = k /\ DOMAIN progress[j] = 1 .. k
    BY <2>1, FoldFacts DEF Prefix
  <2>3. Readable(j, progress[j])
    BY DEF DurableInv, DiskStored
  <2> QED BY <1>1, <2>2, <2>3 DEF Readable
<1> QED BY <1>2, FreshInvariant, DurableInvariant, PTL

(* In every state of every run, faults of both kinds included, the commits  *)
(* returned after a sync are published and on the disk.                     *)
THEOREM ReturnedInvariant == Spec => []ReturnedInv
<1> USE DEF At
<1>1. Init => ReturnedInv
  BY DEF Init, ReturnedInv
<1>2. FreshInv /\ ReturnedInv /\ [Next]_vars => ReturnedInv'
  <2> SUFFICES ASSUME FreshInv, ReturnedInv, [Next]_vars PROVE ReturnedInv'
    OBVIOUS
  <2> USE DEF local, disk, world, returned, Return, Goto, Put
  <2>1. DiskFresh /\ CallFresh /\ job \in Jobs
    BY DEF FreshInv, CallFresh
  <2>2. CASE UNCHANGED vars
    BY <2>2 DEF vars, ReturnedInv
  <2>3. ASSUME \/ \E j \in Jobs : Commit(j) \/ CommitStored(j)
               \/ PutShard \/ ShardsPut \/ Prepare \/ NoManifest \/ Kill
        PROVE  ReturnedInv'
    BY <2>3 DEF ReturnedInv, Commit, CommitStored, Begin, PutShard, ShardsPut, Prepare,
                NoManifest, Kill
  <2>4. ASSUME LoadCommit PROVE ReturnedInv'
    BY <2>1, <2>4 DEF ReturnedInv, LoadCommit
  <2>5. ASSUME SyncObject PROVE ReturnedInv'
    BY <2>1, <2>5 DEF ReturnedInv, SyncObject, CallFresh
  <2>6. ASSUME Resume \/ Start \/ WriteProgress \/ SyncProgress \/ ComputeFold \/ FinishProtection
        PROVE  ReturnedInv'
    BY <2>6 DEF ReturnedInv, Resume, Start, WriteProgress, SyncProgress, ComputeFold,
                FinishProtection
  <2>7. ASSUME Publish PROVE ReturnedInv'
    <3>1. manifests'[job] = Manifest(job) /\ Manifest(job) # None
      BY <2>1, <2>7, FoldFacts DEF Publish, DiskFresh, CallFresh, Ending, Manifest, None
    <3>2. \A j \in Jobs : manifests[j] # None => manifests'[j] # None
      BY <2>1, <2>7, <3>1 DEF Publish, DiskFresh
    <3>3. job \notin acknowledged
      BY <2>7 DEF ReturnedInv, Publish
    <3> QED BY <2>1, <2>7, <3>1, <3>2, <3>3 DEF ReturnedInv, Publish
  <2>8. ASSUME SyncManifest PROVE ReturnedInv'
    BY <2>1, <2>8 DEF ReturnedInv, SyncManifest
  <2>9. ASSUME PowerLoss PROVE ReturnedInv'
    <3>1. \A j \in acknowledged : j \in Jobs /\ manifests'[j] = manifests[j]
      BY <2>9 DEF ReturnedInv, PowerLoss
    <3> QED BY <2>9, <3>1 DEF ReturnedInv, PowerLoss
  <2> QED BY <2>2, <2>3, <2>4, <2>5, <2>6, <2>7, <2>8, <2>9 DEF Next, Step
<1> QED BY <1>1, <1>2, FreshInvariant, PTL DEF Spec

(* A commit that a caller was given after a sync of its manifest stays      *)
(* published whatever fails later (publish_commit); one that load_commit    *)
(* gave for a manifest no call had synced, as long as kills and power       *)
(* losses do not meet.                                                      *)
THEOREM CommitsSurvive == Spec => []AcknowledgedStays
<1>1. ReturnedInv /\ (FaultsApart => DurableInv) => AcknowledgedStays
  BY DEF ReturnedInv, DurableInv, TrustedInv, AcknowledgedStays
<1> QED BY <1>1, ReturnedInvariant, DurableInvariant, PTL
=============================================================================
