-------------------------- MODULE MCSpreadDetector --------------------------
(* Values for checking SpreadDetector: two pools of one DEX and one of       *)
(* another; prices that make spreads of about 100, 103 and 106 bps.          *)
EXTENDS SpreadDetector

Venue(dex, pool) == [dex |-> dex, pool |-> pool]
MCVenues == {Venue("Orca", 1), Venue("Raydium", 2), Venue("Raydium", 3)}
MCFeeBps == [d \in {"Orca", "Raydium"} |-> 25]
=============================================================================
