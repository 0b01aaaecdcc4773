\* Two signals through a one-place channel, with quotes competing for the loop.
CONSTANTS
  t1 = t1
  wsol = wsol
  usdc = usdc
  WSOL = wsol
  Stables = {usdc}
  Tokens <- MCTokens
  Platforms = {"PumpSwap", "Raydium", "Jupiter"}
  Jupiter = "Jupiter"
  Swaps <- MCSwaps
  UsdPerSol = 2
  MinSolEquivalent = 2
  MinSignalSol = 4
  Debounce = 1
  RetainFor = 1
  CleanupSize = 2
  ReconnectDelay = 1
  ChannelCap = 1
  MaxSignals = 2
  QuoteCap = 1
  MaxDbFailures = 1
SPECIFICATION PipelineSpec
INVARIANTS PipelineTypeOK RowsConsistent CountersAgree
PROPERTIES FeedBehaviour EverySignalSettles
