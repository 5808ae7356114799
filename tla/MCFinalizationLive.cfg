SPECIFICATION LiveSpec
CONSTANTS
  n1 = n1
  n2 = n2
  n3 = n3
  None = None
  InitialProposer = n1
  Genesis <- MCGenesis
  Blocks <- MCBlocks
  Validators <- MCValidators
  Elect <- MCElect
  Nodes = {n1, n2}
  Observers = {}
  BootNodes = {}
  Staked = {n1}
  Bodies = {x}
  BodiesAbove = {x}
  MaxNumber = 3
  SlotsPerEpoch = 2
  MaxBlockHeight = 3
  QueryThreshold = 0
INVARIANT ProposersAgree
 
CHECK_DEADLOCK FALSE
