SPECIFICATION MCFairSpec
CHECK_DEADLOCK FALSE
CONSTANTS
  long = long
  short = short
  shard1 = shard1
  shard2 = shard2
  shard3 = shard3
  own = own
  join = join
  output = output
  Jobs <- MCJobs
  ShardsOf <- MCShardsOf
  JoinOf <- MCJoinOf
  OutputOf <- MCOutputOf
  Environments = {}
  MaxFaults = 1
  MaxLength = 0
  Sizes = {1}
  Threads = {1}
  Buffers = 2
  Inputs <- MCInputs
  Candidates = {0, 1, 2}
  MaxChoices = {2, 3}
  OracleLimits = {40}
  NodeLimits = {16}
  Kinds = {"synthesis"}
  Calls <- MCCalls
INVARIANT
  SolvedIsBuilt
