\* A curve traded from its creation until its tokens or the SOL run out, and a
\* pool of each venue traded from small reserves, with every amount up to 22 and
\* schedules of none, one and three tiers; a build with overflow checks.  Trading
\* may come to an end: no deadlock check.
SPECIFICATION MarketSpec
CONSTANTS
  FeeDenominator = 10000
  U64 = 32768
  U128 = 1073741824
  Checked = TRUE
  MaxAmount = 22
  Amounts <- MCAmounts
  Schedules <- MCSchedules
  StartQuote = 10
  StartToken = 25
  StartReal = 18
  TotalSupply = 30
  StartSol = 22
  FlatFees <- MCFlatFees
  TradeFeeRates = {0, 30}
  RateDenominator = 100
  StartVault <- MCStartVault
  StartTraders <- MCStartTraders
INVARIANTS
  TypeOK
  HoldersNeverProfit
  ExactOutAgrees
  FeesAreOfTheTier
  TradersNeverProfit
  PoolExactOutAgrees
PROPERTIES
  ProductNeverFalls
CHECK_DEADLOCK FALSE
