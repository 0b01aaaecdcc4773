---------------------------- MODULE AmmEconomics ----------------------------
(***************************************************************************)
(* The arithmetic a scan is decided by: the constant-product output of a   *)
(* pool (arb-feed/src/pool_decoder.rs) and the economics of a round trip   *)
(* (arb-sim/src/cost_model.rs).  Amounts are lamports or token units; the  *)
(* f64 products of the cost model are taken as exact and rounded down, as  *)
(* the `as u64` casts do.                                                  *)
(***************************************************************************)
EXTENDS Integers

CONSTANTS
  Kept, KeptOf,  \* what a concentrated pool leaves of an input, as a fraction
  FixedCosts,    \* (base fee + priority fee) * number of transactions
  PenaltyBps,    \* execution_penalty_bps
  MinTip,        \* min_jito_tip_lamports
  TipPercent     \* jito_tip_fraction, in percent

ASSUME CostAssumption ==
  /\ Kept \in Nat /\ KeptOf \in Nat \ {0} /\ Kept <= KeptOf
  /\ FixedCosts \in Nat /\ MinTip \in Nat
  /\ PenaltyBps \in 0..10000
  /\ TipPercent \in 0..100

(* constant_product_swap: the fee is taken from the input.                 *)
ConstantProductSwap(reserveIn, reserveOut, amountIn, feeBps) ==
  IF reserveIn = 0 \/ reserveOut = 0 \/ amountIn = 0
  THEN 0
  ELSE (amountIn * (10000 - feeBps) * reserveOut)
         \div (reserveIn * 10000 + amountIn * (10000 - feeBps))

(* Raydium V4 and PumpSwap pools charge 25 bps.                            *)
PoolSwapOutput(reserveIn, reserveOut, amountIn) ==
  ConstantProductSwap(reserveIn, reserveOut, amountIn, 25)

(* PumpFun charges 1 % of the SOL side, before a buy and after a sell.     *)
LessOnePercent(amount) == amount - amount \div 100
PumpFunBuyOutput(sol, token, solIn) ==
  ConstantProductSwap(sol, token, LessOnePercent(solIn), 0)
PumpFunSellOutput(sol, token, tokensIn) ==
  LessOnePercent(ConstantProductSwap(token, sol, tokensIn, 0))

(* whirlpool_swap_output, for Orca and Raydium CLMM: the input less the    *)
(* fee at the current price of priceOut/priceIn, less a thousandth.  The   *)
(* liquidity is only compared with zero.                                   *)
ConcentratedQuote(priceIn, priceOut, liquidity, amountIn) ==
  IF priceOut = 0 \/ liquidity = 0 \/ amountIn = 0
  THEN 0
  ELSE (amountIn * Kept * 999 * priceOut) \div (KeptOf * 1000 * priceIn)

(* What such a pool pays while the price stays in its range: the constant  *)
(* product of the virtual reserves that its price and liquidity stand for. *)
ConcentratedOutput(reserveIn, reserveOut, amountIn) ==
  (amountIn * Kept * reserveOut) \div (reserveIn * KeptOf + amountIn * Kept)

(* Is an input, less its fee, at most a 999th of the reserve it goes to?   *)
SmallFor(reserveIn, amountIn) == 999 * (amountIn * Kept) <= reserveIn * KeptOf

-----------------------------------------------------------------------------
SlippageLamports(rawOutput) == (rawOutput * PenaltyBps) \div 10000

JitoTip(gross) ==
  LET share == (gross * TipPercent) \div 100
  IN  IF gross > 0 /\ share > MinTip THEN share ELSE MinTip

(* CostModel::compute: net profit of getting rawOutput for input.          *)
GrossProfit(input, rawOutput) ==
  rawOutput - SlippageLamports(rawOutput) - input
NetProfit(input, rawOutput) ==
  LET gross == GrossProfit(input, rawOutput)
  IN  gross - FixedCosts - JitoTip(gross)
=============================================================================
