SPECIFICATION WorldsSpec
CONSTANTS
  n1 = n1
  n2 = n2
  n3 = n3
  NULL = NULL
  None = NULL
  Genesis <- MCGenesis
  Blocks <- MCBlocks
  Validators <- MCValidators
  Elect <- MCElect
  InitialProposer = n1
  Nodes = {n1, n2}
  Observers = {}
  BootNodes = {n1}
  Staked = {n2}
  Bodies = {x, y}
  BodiesAbove = {x}
  MaxNumber = 2
  SlotsPerEpoch = 2
  MaxBlockHeight = 3
  QueryThreshold = 1
  Replicas = {n1, n2}
  Chains <- MCChains
  Invalid = "bad"
  Unset = NULL
  MaxFaults = 1
INVARIANTS
  Agreement OneVotePerHeight  CachesAreCurrent RefusalNeedsLoss
  CircleNeedsFullChannel ReplayAgrees  HealthAgrees OnlyStakesTurnInvalid
  RewardsAreAccepted
PROPERTY TransfersAreExecuted
CHECK_DEADLOCK FALSE
