SPECIFICATION WorldsSpec
CONSTANTS
  Objects <- MCObjects
  Functions = {"main", "other"}
  Hash <- MCHash
  MaxCallDepth = 2
  MaxSharedMemoryPages = 2
  CurrentObjectVersion = 1
  CurrentRuntimeVersion = 2
  DepositFeature = 2
  GasLimit = 9
  GasMax = 20
  basic_instruction = 1
  api_call = 2
  NULL = NULL
  a1 = a1
  a2 = a2
  p1 = p1
  latest = latest
CONSTRAINT EqualTables
VIEW View
INVARIANTS
  MetersCovered StaticIsPure  CallsAreSound  
  ArithmeticAgrees 
PROPERTIES FailedCallLeavesNothing 
CHECK_DEADLOCK FALSE
