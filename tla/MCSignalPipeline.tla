-------------------------- MODULE MCSignalPipeline --------------------------
(* Values for checking SignalPipeline: signals the analyzer acts on, and     *)
(* signals it ignores for their size or their platform.                      *)
EXTENDS SignalPipeline

CONSTANTS t1, wsol, usdc

MCTokens == {t1}

Swap(in, out, amount, platform) ==
  [tokenIn |-> in, tokenOut |-> out, amount |-> amount, platform |-> platform]

MCSwaps ==
  {Swap(wsol, t1, 4, "PumpSwap"), Swap(usdc, t1, 4, "PumpSwap"), Swap(t1, wsol, 4, "Jupiter")}
=============================================================================
