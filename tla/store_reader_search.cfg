SPECIFICATION MCFairSpec
CHECK_DEADLOCK FALSE
CONSTANTS
  long = long
  short = short
  shard1 = shard1
  shard2 = shard2
  shard3 = shard3
  own = own
  join = join
  output = output
  Jobs <- MCJobs
  ShardsOf <- MCShardsOf
  JoinOf <- MCJoinOf
  OutputOf <- MCOutputOf
  Environments = {{"kill"}, {"power"}, {"kill", "power"}}
  MaxFaults = 3
  MaxLength = 4
  Sizes = {1, 2, 3}
  Threads = {1, 3}
  Buffers = 2
  Inputs <- MCInputs
  Candidates = {0, 1, 2, 3}
  MaxChoices = {2, 4}
  OracleLimits = {1, 8, 40}
  NodeLimits = {2, 16}
  Kinds = {"coverage", "synthesis"}
  Calls <- MCCalls
INVARIANTS
  ProgressUsable
  ManifestComplete
  ResumedAsFresh
  AcknowledgedStays
  ResultIsSerial
  ResultHolds
  NothingMissed
  CompositionHolds
  ArtifactAccepted
  ClaimsSound
PROPERTIES
  EventuallyCommitted
  Termination
