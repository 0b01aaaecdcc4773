----------------------------- MODULE MCForgeFeed -----------------------------
(* Values for checking ForgeFeed with the volume tracker behind it: every   *)
(* kind of swap the filters tell apart.                                    *)
EXTENDS VolumeTracker

CONSTANTS t1, t2, wsol, usdc

MCTokens == {t1, t2}

Swap(in, out, amount) ==
  [tokenIn |-> in, tokenOut |-> out, amount |-> amount, platform |-> "Raydium"]

(* Buys and sells against SOL and a stablecoin, a stablecoin amount that   *)
(* is large only before the conversion, a small swap, token-to-token and   *)
(* base-to-base swaps.                                                     *)
MCSwaps ==
  {Swap(wsol, t1, 2), Swap(t2, usdc, 4), Swap(usdc, t1, 3), Swap(wsol, t2, 1),
   Swap(t1, t2, 9), Swap(usdc, wsol, 9)}
=============================================================================
