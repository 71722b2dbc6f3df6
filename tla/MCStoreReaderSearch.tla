-------------------------- MODULE MCStoreReaderSearch --------------------------
(****************************************************************************)
(* Three components that do not meet, one per behaviour: the store with two *)
(* jobs that share their first two shards and the fold of these, one of     *)
(* three shards whose last fold is the result and one of two shards whose   *)
(* result is protected differently from the folds; the windowed reader on   *)
(* short files; and an artifact, for every antitone predicate on a few      *)
(* actions or for every choice of predicates of states that share no action *)
(* or one, with limits that stop the search early or never.                 *)
(****************************************************************************)
EXTENDS DurableStore, WindowPipeline, SearchArtifacts

CONSTANTS
  long, short, shard1, shard2, shard3, own, join, output,   \* the store's jobs
  MaxLength,     \* of the files with every mixture of tokens
  Sizes, Threads,
  Kinds, MaxChoices, OracleLimits, NodeLimits

VARIABLE owner   \* what this behaviour is about

mcvars == <<owner, vars, pipelineVars, allSearchVars>>

Shard(x) == [of |-> <<x>>, protect |-> own]

MCJobs     == {long, short}
MCShardsOf == [j \in MCJobs |-> IF j = long THEN <<Shard(shard1), Shard(shard2), Shard(shard3)>>
                                ELSE <<Shard(shard1), Shard(shard2)>>]
MCJoinOf   == [j \in MCJobs |-> join]
MCOutputOf == [j \in MCJobs |-> IF j = long THEN join ELSE output]

\* Every short file, and some of many lines whose widths or words lie windows
\* apart.
Files ==
  LET n == <<"number">>
      e == <<"newline">>
      w == <<"word">>
  IN  BoundedSeq(Token, MaxLength)
        \cup { n \o e \o n \o e \o n \o e, n \o e \o n \o n \o e \o w \o e,
               e \o n \o e \o e \o n \o n \o e, n \o e \o n \o e \o n \o n,
               n \o n \o n \o n \o e \o n \o w }

\* The file reports its length or none (a pipe), and every read succeeds or
\* one fails at some token.  One thread splits no window, whatever its size.
MCInputs ==
  { i \in UNION { [file : {file}, size : Sizes, reported : {0, Len(file)},
                   readable : {1, Len(file), Len(file) + 10},
                   threads : Threads, minBytes : {0, 3}] : file \in Files } :
      i.threads = 1 => i.minBytes = 0 }

Same    == [x \in Candidates |-> 1]
Various == [x \in Candidates |-> IF x = 0 THEN 3 ELSE 1 + (x % 2)]

\* An antitone predicate of a state, by the selections it rejects at the least.
Predicates(actions) ==
  {F \in SUBSET SUBSET actions : \A R, S \in F : R \subseteq S => R = S}

\* One of the two limits at most is low.
CallsOf(kinds, costs, states, needs) ==
  {c \in [kind : kinds, cost : costs, max : MaxChoices, states : {states}, needs : needs,
          oracleCalls : OracleLimits, searchNodes : NodeLimits] :
     c.oracleCalls = Max(OracleLimits) \/ c.searchNodes = Max(NodeLimits)}

\* Every action counts in one state.
OneState ==
  CallsOf(Kinds, {Same, Various}, [x \in Candidates |-> {1}], {<<F>> : F \in Predicates(Candidates)})

\* Two actions count in the first state and the others in the second, with or
\* without an action that counts in both; or the last action has its own.
SomeStates ==
  LET split == [x \in Candidates |-> {1 + (x \div 2)}]
      chain == [x \in Candidates |-> IF x = 3 THEN {3} ELSE IF x = 1 THEN {1, 2} ELSE split[x]]
      needs(states) ==
        LET of(s) == Predicates({x \in Candidates : s \in states[x]})
        IN  {<<F, G, H>> : F \in of(1), G \in of(2), H \in of(3)}
  IN  CallsOf(Kinds \cap {"coverage"}, {Various}, split, needs(split))
        \cup CallsOf(Kinds \cap {"coverage"}, {Various}, chain, needs(chain))

MCCalls == OneState \cup SomeStates

-----------------------------------------------------------------------------
\* A store whose jobs an earlier process has committed.
StoreIdle ==
  LET foldsOf == [j \in Jobs |-> [k \in 1 .. ShardCount(j) |-> Fold(j, k)]] IN
  /\ objects = UNION {ToSet(ShardsOf[j]) \cup ToSet(foldsOf[j]) \cup {Result(j)} : j \in Jobs}
  /\ volatile = {}
  /\ progress = foldsOf
  /\ onDisk = [j \in Jobs |-> {foldsOf[j]}]
  /\ manifests = [j \in Jobs |-> [shards |-> ShardsOf[j], folds |-> foldsOf[j],
                                 result |-> Result(j)]]
  /\ volatileManifests = {}
  /\ pc = "idle"
  /\ after = "idle"
  /\ job = short
  /\ next = 0
  /\ folds = <<>>
  /\ accumulator = None
  /\ acknowledged = Jobs
  /\ trusted = {}
  /\ environment = {"kill"}
  /\ faults = 0

\* A reader that has read an empty file.
ReaderIdle ==
  /\ input = [file |-> <<>>, size |-> 1, reported |-> 0, readable |-> 10,
              threads |-> 1, minBytes |-> 0]
  /\ windows = [offset |-> 0, remaining |-> 0, carry |-> <<>>, done |-> TRUE]
  /\ readerPc = "exit"
  /\ filled = <<>>
  /\ full = <<>>
  /\ empty = 0
  /\ receiving = FALSE
  /\ returning = FALSE
  /\ callerPc = "returned"
  /\ text = <<>>
  /\ firstLine = 1
  /\ sink = EmptySink
  /\ failed = FALSE
  /\ parsed = <<>>

\* An artifact that nobody has asked for.
SearchIdle ==
  /\ call = [kind |-> "synthesis", cost |-> [x \in Candidates |-> 1], max |-> 0,
             states |-> [x \in Candidates |-> {1}], needs |-> <<{}>>,
             oracleCalls |-> 1, searchNodes |-> 1]
  /\ Waiting

MCInit ==
  \/ owner = "store"  /\ Init         /\ ReaderIdle /\ SearchIdle
  \/ owner = "reader" /\ PipelineInit /\ StoreIdle  /\ SearchIdle
  \/ owner = "search" /\ StoreIdle  /\ ReaderIdle /\ ArtifactInit

MCNext ==
  \/ owner = "store"  /\ Next         /\ UNCHANGED <<owner, pipelineVars, allSearchVars>>
  \/ owner = "reader" /\ PipelineNext /\ UNCHANGED <<owner, vars, allSearchVars>>
  \/ owner = "search" /\ ArtifactNext   /\ UNCHANGED <<owner, vars, pipelineVars>>

\* A call of the store that runs goes on, and the callers retry every job with
\* commit.  Both threads of a reader are scheduled as long as they can run.
MCFairSpec ==
  /\ MCInit /\ [][MCNext]_mcvars
  /\ WF_vars(owner = "store" /\ Step)
  /\ \A j \in Jobs : SF_vars(owner = "store" /\ Commit(j))
  /\ WF_pipelineVars(owner = "reader" /\ Reader)
  /\ WF_pipelineVars(owner = "reader" /\ Pass)
  /\ WF_callerPc(owner = "reader" /\ Parsed)
=============================================================================
