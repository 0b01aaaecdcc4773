\* The feed and the tracker, with the measure the tracker documents.
CONSTANTS
  t1 = t1
  t2 = t2
  wsol = wsol
  usdc = usdc
  WSOL = wsol
  Stables = {usdc}
  Tokens <- MCTokens
  Platforms = {"Raydium"}
  Swaps <- MCSwaps
  UsdPerSol = 2
  MinSolEquivalent = 2
  Debounce = 2
  RetainFor = 2
  CleanupSize = 1
  ReconnectDelay = 2
  ChannelCap = 1
  MaxSignals = 4
  Window = 3
  SpikeWindow = 1
  Multiplier = 1
  MinHistory = 2
  HotFor = 2
  CleanupEvery = 2
SPECIFICATION TrackerSpec
PROPERTY SpikesAreFlagged
