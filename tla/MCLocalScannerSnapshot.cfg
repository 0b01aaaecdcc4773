\* Other traders move the pools between the quotes of a triggered scan.
CONSTANTS
  PoolDexes <- MCPoolDexes
  Mints <- MCMints
  Markets <- MCMarkets
  Trade = 50
  Kept = 399
  KeptOf = 400
  FixedCosts = 4
  PenaltyBps = 500
  MinTip = 1
  TipPercent = 50
  MaxMoves = 2
SPECIFICATION Spec
INVARIANT ProfitInOneSnapshot
CHECK_DEADLOCK FALSE
