\* The same quotes: the walk over a gap never returns.
SPECIFICATION FairSpec
CONSTANTS
  BinsPerArray = 2
  BitmapSize = 1
  ExtensionPages = 4
  MinBinId <- MCMinBinId
  MaxBinId = 5
  Price <- MCPrice
  PriceScale = 16
  FeePrecision = 1000
  MaxFeeRate = 200
  BaseFeeUnit = 10
  VariableUnit = 100
  BasisPointMax = 10
  U32 = 128
  U64 = 4096
  Pools <- MCPools
  Amounts <- MCAmounts
  Clocks <- MCClocks
  Actives <- MCActives
  MaxAmount = 24
PROPERTIES
  QuoteEnds
CHECK_DEADLOCK FALSE
