SPECIFICATION WorldsSpec
CONSTANTS
  Chain = 3
  BatchSize = 2
  SlotsPerEpoch = 3
  MaxBlockHeight = 0
  Archive = FALSE
  OverflowChecks = FALSE
  MaxFaults = 1
  MaxSyncs = 2
  Sources <- MCSources
  AllTables <- MCTables
  OtherTables = {"transaction_metadata"}
  MaxDumps = 2
  MaxOutages = 1
INVARIANTS AppliedOnce HeadCovered 
PROPERTIES SyncInOrder SyncCompletes HandlersEnd
CHECK_DEADLOCK FALSE
