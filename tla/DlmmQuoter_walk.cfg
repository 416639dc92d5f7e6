\* Quotes of up to 24 units in both directions, exact in and exact out and
\* replayed, over pools with and without gaps.  A caller makes one quote and
\* its replay: no deadlock check.
SPECIFICATION FairSpec
CONSTANTS
  BinsPerArray = 2
  BitmapSize = 1
  ExtensionPages = 4
  MinBinId <- MCMinBinId
  MaxBinId = 5
  Price <- MCPrice
  PriceScale = 16
  FeePrecision = 1000
  MaxFeeRate = 200
  BaseFeeUnit = 10
  VariableUnit = 100
  BasisPointMax = 10
  U32 = 128
  U64 = 4096
  Pools <- MCPools
  Amounts <- MCAmounts
  Clocks <- MCClocks
  Actives <- MCActives
  MaxAmount = 24
INVARIANTS
  NearestBinsFirst
  ExactOutIsHonoured
  ExactOutIsMinimal
  ArraysAreNearestFirst
PROPERTIES
  QuoteWithoutGapEnds
CHECK_DEADLOCK FALSE
