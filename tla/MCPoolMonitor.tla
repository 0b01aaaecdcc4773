--------------------------- MODULE MCPoolMonitor ----------------------------
(* Values for checking PoolMonitor. *)
EXTENDS PoolMonitor

CONSTANTS curve, whirl
=============================================================================
