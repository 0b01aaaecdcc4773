---------------------------- MODULE MCControlPanel ----------------------------
(* Values for checking ControlPanel: one setting events tell and one they   *)
(* do not, changed each alone and both at once.                             *)
EXTENDS ControlPanel

CommandLine == [mode |-> "low", min_spread_bps |-> "low"]
Bodies ==
  {[mode |-> "high"], [min_spread_bps |-> "high"],
   [mode |-> "low", min_spread_bps |-> "low"]}
=============================================================================
