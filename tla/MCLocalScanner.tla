--------------------------- MODULE MCLocalScanner ---------------------------
(* Values for checking LocalScanner: three venues at the prices 1 and 1.6,   *)
(* one of them concentrated, with SOL as its first mint, once deep and once  *)
(* shallow for the trade.                                                    *)
EXTENDS LocalScanner

MCPoolDexes == <<"PumpSwap", "PumpFun", "Orca">>

Holds(first, second) == [first |-> first, second |-> second, quote |-> second]
MCMints ==
  <<Holds("token", "SOL"), Holds("token", "SOL"), Holds("SOL", "token")>>

Market(first, second, depth) ==
  [first |-> first, second |-> second, depth |-> depth, complete |-> FALSE]
Pairs == {Market(1, 1, 1000), Market(5, 8, 200)}
MCMarkets ==
  [PumpSwap |-> Pairs,
   PumpFun  |-> Pairs \union {[Market(1, 2, 1000) EXCEPT !.complete = TRUE]},
   Orca     |-> {Market(1, 1, 50000), Market(8, 5, 10000), Market(1, 1, 100)}]
=============================================================================
