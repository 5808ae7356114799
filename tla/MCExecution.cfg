SPECIFICATION Spec
CONSTANTS
  u = u
  v = v
  r = r
  m = m
  d1 = d1
  d2 = d2
  c = c
  config_key = config_key
  previous_key = previous_key
  good = good
  better = better
  bad = bad
  None = None
  Addresses = {u, v, r, m, d1, d2, c}
  FeeRecipient = r
  MintMaster = m
  Keys = {config_key, previous_key}
  ConfigKey = config_key
  PrevConfigKey = previous_key
  ValidConfigs = {good, better}
  Derived <- MCDerived
  InitialTable <- MCInitialTable
  BlockChoices <- MCBlockChoices
  MaxBalance = 40
  MaxNonce = 4
  MaxBlocks = 2
  MaxTxs = 2
  GasPrice = 2
  MaxGas = 20
ACTION_CONSTRAINT OneBlockAtATime
INVARIANTS SupplyConserved StakesBacked
PROPERTY ImplementsLedger
CHECK_DEADLOCK FALSE
