\* The PumpSwap bundle over an ordered stream: three slots, one superseded observation.
SPECIFICATION Spec
CONSTANTS
  pool = pool
  base = base
  quote = quote
  fee_config = fee_config
  MaxSlot = 3
  PoolWrites = 1
  VaultWrites = 3
  ConfigWrites = 1
  Fields <- PumpSwapFields
  Config = fee_config
  Transactions <- PumpSwapTransactions
  MaxWrites <- MCMaxWrites
  States <- MCStates
  Slots <- MCSlots
  Depth = 1
  InOrder = TRUE
INVARIANTS
  BundleIsAsOfSlot
PROPERTIES
  RefusalIsHonest
CHECK_DEADLOCK FALSE
