SPECIFICATION Spec
CONSTANTS
  n1 = n1
  n2 = n2
  n3 = n3
  None = None
  InitialProposer = n2
  Genesis <- MCGenesis
  Blocks <- MCBlocks
  Validators <- MCValidators
  Elect <- MCElect
  Nodes = {n1, n2, n3}
  Observers = {n1}
  BootNodes = {n1}
  Staked = {n2}
  Bodies = {x}
  BodiesAbove = {x}
  MaxNumber = 2
  SlotsPerEpoch = 9
  MaxBlockHeight = 3
  QueryThreshold = 0
ACTION_CONSTRAINT RunToCompletion
INVARIANT ParentExecuted
CHECK_DEADLOCK FALSE
