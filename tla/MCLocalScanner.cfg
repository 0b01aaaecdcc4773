\* One scan of three pools while other traders move them up to twice.
CONSTANTS
  PoolDexes <- MCPoolDexes
  Mints <- MCMints
  Markets <- MCMarkets
  Trade = 50
  Kept = 399
  KeptOf = 400
  FixedCosts = 4
  PenaltyBps = 500
  MinTip = 1
  TipPercent = 50
  MaxMoves = 2
SPECIFICATION Spec
INVARIANTS TypeOK ReportsBest ErrorOnlyWithoutRoutes QuietProfitIsReal
CHECK_DEADLOCK FALSE
