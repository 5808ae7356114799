SPECIFICATION LossySpec
CONSTANTS
  n1 = n1
  n2 = n2
  n3 = n3
  None = None
  InitialProposer = n1
  Genesis <- MCGenesis
  Blocks <- MCBlocks
  Validators <- MCValidators
  Elect <- MCElect
  Nodes = {n1, n2}
  Observers = {}
  BootNodes = {}
  Staked = {n1}
  Bodies = {x}
  BodiesAbove = {x}
  MaxNumber = 1
  SlotsPerEpoch = 2
  MaxBlockHeight = 2
  QueryThreshold = 3
PROPERTIES ProposedBlockArrives
CHECK_DEADLOCK FALSE
