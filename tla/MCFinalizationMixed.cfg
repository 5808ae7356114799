SPECIFICATION Spec
CONSTANTS
  n1 = n1
  n2 = n2
  n3 = n3
  None = None
  InitialProposer = n1
  Genesis <- MCGenesis
  Blocks <- MCBlocks
  Validators <- MCValidators
  Elect <- MCElect
  Nodes = {n1, n2, n3}
  Observers = {n3}
  BootNodes = {n1}
  Staked = {n1}
  Bodies = {x, y}
  BodiesAbove = {x}
  MaxNumber = 1
  SlotsPerEpoch = 2
  MaxBlockHeight = 2
  QueryThreshold = 3
ACTION_CONSTRAINT RunToCompletion
INVARIANT VotesForSameBlock
CHECK_DEADLOCK FALSE
