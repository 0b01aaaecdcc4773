--------------------------- MODULE MCPoolRegistry ---------------------------
(* Values for checking PoolRegistry: listings with two pools of a DEX, a     *)
(* CLMM pool behind a V4 pool, pools that are not quotable, and nothing.     *)
EXTENDS PoolRegistry, TLC

CONSTANTS c1, c2

Pair(addr, dex, liquid) == [addr |-> addr, dex |-> dex, liquid |-> liquid]

MCAddresses == {"v4", "clmm", "pump", "pump2", "curve"}
MCLayout == [a \in MCAddresses |-> IF a \in {"v4", "clmm"} THEN a ELSE "other"]
MCListings ==
  {<<>>,
   <<Pair("curve", "PumpFun", TRUE), Pair("pump", "PumpSwap", FALSE)>>,
   <<Pair("clmm", "Raydium", TRUE), Pair("v4", "Raydium", TRUE),
     Pair("curve", "Meteora", TRUE)>>,
   <<Pair("pump", "PumpSwap", TRUE), Pair("clmm", "Raydium", TRUE),
     Pair("pump2", "PumpSwap", TRUE)>>}

MCSymmetry == Permutations(Callers)
=============================================================================
