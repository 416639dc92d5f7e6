\* The release profile, which wraps: "in u128 to prevent overflow".
SPECIFICATION MarketSpec
CONSTANTS
  FeeDenominator = 10000
  U64 = 32768
  U128 = 1073741824
  Checked = FALSE
  MaxAmount = 22
  Amounts <- MCAmounts
  Schedules <- MCSchedules
  StartQuote = 10
  StartToken = 25
  StartReal = 18
  TotalSupply = 30
  StartSol = 22
  FlatFees <- MCFlatFees
  TradeFeeRates = {0, 30}
  RateDenominator = 100
  StartVault <- MCStartVault
  StartTraders <- MCStartTraders
INVARIANTS
  QuotesDoNotOverflow
CHECK_DEADLOCK FALSE
