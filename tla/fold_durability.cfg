SPECIFICATION MCFairSpec
CHECK_DEADLOCK FALSE
CONSTANTS
  long = long
  short = short
  shard1 = shard1
  shard2 = shard2
  shard3 = shard3
  own = own
  join = join
  output = output
  Jobs <- MCJobs
  ShardsOf <- MCShardsOf
  JoinOf <- MCJoinOf
  OutputOf <- MCOutputOf
  Environments = {{"kill"}}
  MaxFaults = 1
  MaxLength = 0
  Sizes = {1}
  Threads = {1}
  Buffers = 2
  Inputs <- MCInputs
  Candidates = {0, 1}
  MaxChoices = {2}
  OracleLimits = {1}
  NodeLimits = {2}
  Kinds = {"coverage"}
  Calls <- MCCalls
INVARIANT
  FoldsDurable
